---- MODULE Spec2Model ----
(***************************************************************************)
(* Selection engine of the parallel-coordinates chart: axis scales, the    *)
(* per-axis range brush with its throttled, direction-hinted recomputation *)
(* of the polylines' "brushed" class, the line brush, and data updates.    *)
(*                                                                         *)
(* Numbers.  Pixel values on an axis are fixed-point integers counting     *)
(* ticks of 10^-7 pixel, one decimal more than the 6 decimals the code     *)
(* rounds to before it compares, so that the rounding is observable.       *)
(* Canvas coordinates of the line brush and of the polylines' vertices are *)
(* whole pixels.                                                           *)
(*                                                                         *)
(* d3-brush is a library the code drives; its part is modelled as          *)
(* documented: every change of a brush's selection emits "brush", a        *)
(* gesture that leaves the selection empty sets it to null and emits       *)
(* "end", brush.move(group, s) sets the selection and emits "brush" and    *)
(* then "end", and brushSelection(node) reads the current selection.       *)
(***************************************************************************)
EXTENDS Integers, Sequences, FiniteSets, TLC

VARIABLES
    chartClass,   \* which class was constructed: "PC" or "PAVED"
    data,         \* ParallelCoordinates.data
    dimensions,   \* ParallelCoordinates.dimensions (ordered)
    axes,         \* ParallelCoordinates.axes: name -> axis object
    polylines,    \* the foreground's .polyline elements: ID -> element
    lineBrush,    \* closure state of lineBrush()
    xScale,       \* domain of ParallelCoordinates.xScale (axis names in order)
    dragging,     \* ParallelCoordinates.dragging: name -> drag position
    groups,       \* the names of the g.dimension elements of the chart group
    lastOp,       \* history: the last handler that ran and what it observed
    probe         \* an isBrushed call on a single axis: its inputs and result

vars == <<chartClass, data, dimensions, axes, polylines, lineBrush, xScale,
         dragging, groups, lastOp, probe>>

-----------------------------------------------------------------------------
(* Numbers *)

\* ticks per pixel: 10^7, one decimal below the 6 that toFixed(6) keeps
TicksPerPx == 10000000

\* the options the chart is constructed with: DefaultOptions, with a height
\* that leaves a canvas of 100 pixels
options ==
    [width |-> 1100, height |-> 185,
     padding |-> [top |-> 25, right |-> 45, bottom |-> 60, left |-> 65]]

\* ParallelCoordinates.initMemberVariables
canvasHeight == options.height - options.padding.top - options.padding.bottom
canvasWidth == options.width - options.padding.left - options.padding.right

Px(n) == n * TicksPerPx

\* Number(x.toFixed(6)) on a value held in ticks: nearest multiple of
\* 10^-6, ties away from zero
Round6(t) ==
    IF t >= 0 THEN ((t + 5) \div 10) * 10
    ELSE 0 - ((((0 - t) + 5) \div 10) * 10)

-----------------------------------------------------------------------------
(* Raw values of a data row: a number, or a string ("NaN" is the marker) *)

Num(n) == [t |-> "num", n |-> n, s |-> ""]
Str(s) == [t |-> "str", n |-> 0, s |-> s]
NaNValue == Str("NaN")
\* item[name]: undefined for an attribute the row has no value for
Missing == [t |-> "undefined", n |-> 0, s |-> ""]
valueAt(item, name) == IF name \in DOMAIN item THEN item[name] ELSE Missing

\* a data row is a function from its keys to raw values; every key order
\* (Object.keys) follows KeyOrder
KeyOrder == <<"A", "B", "ID">>

SeqToSet(s) == {s[i] : i \in 1..Len(s)}

SetMin(S) == CHOOSE x \in S : \A y \in S : x <= y
SetMax(S) == CHOOSE x \in S : \A y \in S : x >= y

\* the elements of s in order, each kept at its first occurrence
RECURSIVE Unique(_)
Unique(s) ==
    IF s = <<>> THEN <<>>
    ELSE LET r == Unique(SubSeq(s, 1, Len(s) - 1))
             x == s[Len(s)]
         IN IF x \in SeqToSet(r) THEN r ELSE Append(r, x)

-----------------------------------------------------------------------------
(* data.ts *)

NoStatistics == [min |-> 0, max |-> 0, cats |-> <<>>]

\* Math.min and Math.max of a list of numbers; of no numbers they are
\* Infinity and -Infinity, here a number beyond every value of a row
Infinity == 1000000
MathMin(S) == IF S = {} THEN Infinity ELSE SetMin(S)
MathMax(S) == IF S = {} THEN 0 - Infinity ELSE SetMax(S)

\* a deriveColumnMetaData that tests for strings first
deriveColumnStringsFirst(name, rows) ==
    LET vals == [i \in 1..Len(rows) |-> rows[i][name]]
        allNum == \A i \in 1..Len(vals) : vals[i].t = "num" \/ vals[i] = NaNValue
        allStr == \A i \in 1..Len(vals) : vals[i].t = "str"
        valid == {vals[i].n : i \in {j \in 1..Len(vals) : vals[j].t = "num"}}
    IN IF allStr
       THEN [name |-> name, attr_type |-> "NOMINAL", obj |-> "none", unit |-> "none", color |-> "none",
             statistics |-> [min |-> 0, max |-> 0,
                             cats |-> Unique([i \in 1..Len(vals) |-> vals[i].s])]]
       ELSE IF allNum
       THEN [name |-> name, attr_type |-> "NUMERICAL", obj |-> "none", unit |-> "none", color |-> "none",
             statistics |-> [min |-> MathMin(valid), max |-> MathMax(valid), cats |-> <<>>]]
       ELSE [name |-> name, attr_type |-> "ERROR", obj |-> "none", unit |-> "none", color |-> "none",
             statistics |-> NoStatistics]

\* deriveColumnMetaData for one column; attr_type "ERROR" stands for the throw
deriveColumn(name, rows) ==
    LET vals == [i \in 1..Len(rows) |-> rows[i][name]]
        allNum == \A i \in 1..Len(vals) : vals[i].t = "num" \/ vals[i] = NaNValue
        allStr == \A i \in 1..Len(vals) : vals[i].t = "str"
        valid == {vals[i].n : i \in {j \in 1..Len(vals) : vals[j].t = "num"}}
    IN IF allNum
       THEN [name |-> name, attr_type |-> "NUMERICAL", obj |-> "none", unit |-> "none", color |-> "none",
             statistics |-> [min |-> MathMin(valid), max |-> MathMax(valid), cats |-> <<>>]]
       ELSE IF allStr
       THEN [name |-> name, attr_type |-> "NOMINAL", obj |-> "none", unit |-> "none", color |-> "none",
             statistics |-> [min |-> 0, max |-> 0,
                             cats |-> Unique([i \in 1..Len(vals) |-> vals[i].s])]]
       ELSE [name |-> name, attr_type |-> "ERROR", obj |-> "none", unit |-> "none", color |-> "none",
             statistics |-> NoStatistics]

\* the members of S in the order of the sequence s
RECURSIVE InOrder(_, _)
InOrder(s, S) ==
    IF s = <<>> THEN <<>>
    ELSE IF s[1] \in S THEN <<s[1]>> \o InOrder(Tail(s), S)
    ELSE InOrder(Tail(s), S)

\* initColumnsFromRows: the keys of the first row
initColumnsFromRows(rows) ==
    IF rows = <<>> THEN <<>> ELSE InOrder(KeyOrder, DOMAIN rows[1])

\* insertIDs: a row without an ID gets its index as ID
insertIDs(rows) ==
    [i \in 1..Len(rows) |->
        IF "ID" \in DOMAIN rows[i] THEN rows[i]
        ELSE [k \in DOMAIN rows[i] \cup {"ID"} |->
                IF k = "ID" THEN Num(i - 1) ELSE rows[i][k]]]

idsGenerated(rows) == \E i \in 1..Len(rows) : "ID" \notin DOMAIN rows[i]

\* prepareData: the columns (ID first when IDs were generated) with their
\* meta data, and the rows with IDs
prepareData(rows) ==
    LET cols == initColumnsFromRows(rows)
        names == IF idsGenerated(rows) THEN <<"ID">> \o cols ELSE cols
        modifiedRows == insertIDs(rows)
    IN [columns |-> [i \in 1..Len(names) |-> deriveColumn(names[i], modifiedRows)],
        rows |-> modifiedRows]

hasTypeObjective(dim) == dim.obj # "none"

-----------------------------------------------------------------------------
(* scale.ts *)

Undefined == [def |-> FALSE, nan |-> FALSE, p |-> 0]
Defined(p) == [def |-> TRUE, nan |-> FALSE, p |-> p]
\* the number NaN: no pixel value, and not undefined either
NotANumber == [def |-> FALSE, nan |-> TRUE, p |-> 0]

\* n * r / d in ticks, cut after the last decimal a tick holds (the
\* product is split so that it stays within 32 bits)
Scaled(n, r, d) == n * (r \div d) + (n * (r % d)) \div d

\* NumericalAxisScaleImpl.domainToRange: d3 scaleLinear, unknown for a
\* non-number, the middle of the range for a degenerate domain.  A domain
\* that was set from two or more categories is [NaN, NaN], and maps every
\* number to NaN.
NumericalDomainToRange(scale, val) ==
    IF val.t # "num" THEN Undefined
    ELSE IF scale.kind # "NUMERICAL" THEN NotANumber
    ELSE IF scale.min = scale.max
    THEN Defined((scale.range[1] + scale.range[2]) \div 2)
    ELSE Defined(scale.range[1] + Scaled(val.n - scale.min,
                                         scale.range[2] - scale.range[1],
                                         scale.max - scale.min))

IndexOf(s, x) == IF x \in SeqToSet(s) THEN CHOOSE i \in 1..Len(s) : s[i] = x ELSE 0

\* the domain of a scalePoint that was set from [min, max]: the two
\* numbers, or the one if they are equal
PointDomain(scale) ==
    IF scale.min = scale.max THEN <<scale.min>> ELSE <<scale.min, scale.max>>

\* NominalAxisScaleImpl.domainToRange: d3 scalePoint with padding 0.5,
\* undefined for a value outside the domain
NominalDomainToRange(scale, val) ==
    LET n == IF scale.kind = "NUMERICAL" THEN Len(PointDomain(scale))
             ELSE Len(scale.cats)
        i == IF scale.kind = "NUMERICAL"
             THEN IF val.t = "num" THEN IndexOf(PointDomain(scale), val.n) ELSE 0
             ELSE IF val.t = "str" THEN IndexOf(scale.cats, val.s) ELSE 0
        r0 == scale.range[1]
        r1 == scale.range[2]
    IN IF i = 0 THEN Undefined
       ELSE Defined(r0 + (2 * i - 1) * ((r1 - r0) \div (2 * n)))

domainToRange(scale, val) ==
    IF scale.type = "NUMERICAL" THEN NumericalDomainToRange(scale, val)
    ELSE NominalDomainToRange(scale, val)

\* the scale the axis constructor creates for the dimension, with the
\* range and the domain set: type is the variant (NumericalAxisScaleImpl
\* or NominalAxisScaleImpl), kind the attribute type the domain came from
setScale(dim, range) ==
    [type |-> dim.attr_type, kind |-> dim.attr_type, range |-> range,
     min |-> dim.statistics.min, max |-> dim.statistics.max,
     cats |-> dim.statistics.cats]

-----------------------------------------------------------------------------
(* DefaultAxis, ParameterAxis, ObjectiveAxis *)

NoSelection == [on |-> FALSE, y0 |-> 0, y1 |-> 0]
Selection(y0, y1) == [on |-> TRUE, y0 |-> y0, y1 |-> y1]
\* timerId: whether it holds a timer, the direction that timer's callback
\* was given, and how many setTimeout callbacks of the axis have yet to run
NoTimer == [pending |-> FALSE, dir |-> "none", timeouts |-> 0]
NoHandle == [set |-> FALSE, y |-> 0]

\* the axis scale's range as updateAxis sets it: [canvasHeight, 0]
AxisRange == <<Px(canvasHeight), 0>>

\* whether generateAxis throws for the dimension: the constructor of
\* ObjectiveAxis for a non-numerical dimension, the one of DefaultAxis for
\* an attribute type that is neither numerical nor nominal
constructorThrows(cls, dim) ==
    \/ cls = "PAVED" /\ hasTypeObjective(dim) /\ dim.attr_type # "NUMERICAL"
    \/ dim.attr_type \notin {"NUMERICAL", "NOMINAL"}

\* generateAxis of the chart class, and the axis constructors.  upperY and
\* lowerY are Number(attr("y")) of the brush labels, 0 while the attribute
\* is unset; handle is the translation of .handle--custom.
generateAxis(cls, dim) ==
    [cls |-> IF cls = "PC" THEN "DefaultAxis"
             ELSE IF hasTypeObjective(dim) THEN "ObjectiveAxis" ELSE "ParameterAxis",
     dimension |-> dim,
     scale |-> setScale(dim, <<0, 1>>),
     registered |-> FALSE,
     selection |-> NoSelection,
     upperY |-> 0, lowerY |-> 0,
     handle |-> NoHandle,
     timerId |-> NoTimer]

\* DefaultAxis.isBrushed, its last step: the comparison of the rounded
\* pixel values, false for a value without pixel position
withinBrushedRange(brushedRange, rangeVal) ==
    IF rangeVal.def
    THEN /\ Round6(brushedRange[1]) >= Round6(rangeVal.p)
         /\ Round6(rangeVal.p) >= Round6(brushedRange[2])
    ELSE FALSE

\* a faulty isBrushed, which compares the pixel values as they are
isBrushedExact(axis, domainValue) ==
    IF axis.selection.on
    THEN IF domainValue = NaNValue THEN FALSE
         ELSE /\ domainToRange(axis.scale, domainValue).def
              /\ axis.selection.y1 >= domainToRange(axis.scale, domainValue).p
              /\ domainToRange(axis.scale, domainValue).p >= axis.selection.y0
    ELSE TRUE

\* DefaultAxis.isBrushed
isBrushed(axis, domainValue) ==
    IF axis.selection.on
    THEN IF domainValue = NaNValue THEN FALSE
         ELSE withinBrushedRange(<<axis.selection.y1, axis.selection.y0>>,
                                 domainToRange(axis.scale, domainValue))
    ELSE TRUE

\* a faulty classification, which looks at the upper bound only
DefaultDirectionUpperOnly(axis) ==
    IF axis.upperY - axis.lowerY # axis.selection.y0 - axis.selection.y1
    THEN IF axis.selection.y0 > axis.upperY THEN "SHRINK" ELSE "EXTEND"
    ELSE "none"

\* the direction DefaultAxis's "brush" listener derives for a non-empty
\* selection.  Number(...) of a label attribute is never null, so the
\* "just created" test of the code never holds.
DefaultDirection(axis) ==
    LET currUpper == axis.upperY
        currLower == axis.lowerY
        nextUpper == axis.selection.y0
        nextLower == axis.selection.y1
    IN IF currUpper - currLower # nextUpper - nextLower
       THEN IF nextUpper > currUpper \/ nextLower < currLower
            THEN "SHRINK" ELSE "EXTEND"
       ELSE "none"

\* the direction ObjectiveAxis's "brush" listener derives
ObjectiveDirection(axis) ==
    IF axis.selection.on
    THEN LET nextBound == IF axis.dimension.obj = "MAX" THEN axis.selection.y1
                          ELSE axis.selection.y0
             currBound == IF axis.handle.set THEN axis.handle.y ELSE nextBound
         IN IF \/ (axis.dimension.obj = "MIN" /\ nextBound > currBound)
               \/ (axis.dimension.obj = "MAX" /\ nextBound < currBound)
            THEN "SHRINK" ELSE "EXTEND"
    ELSE "EXTEND"

\* the direction the axis's "brush" listener hands to throttleFunction
Direction(axis) ==
    IF axis.cls = "ObjectiveAxis" THEN ObjectiveDirection(axis)
    ELSE IF axis.selection.on THEN DefaultDirection(axis) ELSE "none"

\* a faulty throttle, which cancels the pending timer of a second call
throttleFunctionToggle(axis, direction) ==
    IF axis.timerId.pending THEN [axis EXCEPT !.timerId = NoTimer]
    ELSE [axis EXCEPT !.timerId = [pending |-> TRUE, dir |-> direction,
                                   timeouts |-> @.timeouts + 1]]

\* a throttleFunction without the test of timerId
throttleFunctionUnguarded(axis, direction) ==
    [axis EXCEPT !.timerId = [pending |-> TRUE, dir |-> direction,
                              timeouts |-> @.timeouts + 1]]

\* DefaultAxis.throttleFunction: nothing while a timer is pending
throttleFunction(axis, direction) ==
    IF axis.timerId.pending THEN axis
    ELSE [axis EXCEPT !.timerId = [pending |-> TRUE, dir |-> direction,
                                   timeouts |-> @.timeouts + 1]]

\* the "brush" listener's marks of the selection: the labels of a default
\* or parameter axis, the custom handle of an objective axis
moveLabels(axis) ==
    IF ~axis.selection.on THEN axis
    ELSE IF axis.cls = "ObjectiveAxis"
    THEN [axis EXCEPT !.handle =
            [set |-> TRUE,
             y |-> IF axis.dimension.obj = "MAX" THEN axis.selection.y1
                   ELSE axis.selection.y0]]
    ELSE [axis EXCEPT !.upperY = axis.selection.y0,
                      !.lowerY = axis.selection.y1]

\* a "brush" listener that moves the labels and schedules nothing
onBrushLabelsOnly(axis) == moveLabels(axis)

\* the "brush" listener of the axis, run with the selection d3 has just set
onBrush(axis) == throttleFunction(moveLabels(axis), Direction(axis))

\* whether the axis's "end" listener calls brushHandler(name, EXTEND):
\* only DefaultAxis.setBrushHandler registers one, for an empty selection
endCallsHandler(axis) == axis.cls # "ObjectiveAxis" /\ ~axis.selection.on

-----------------------------------------------------------------------------
(* LineBrush *)

Point(x, y) == [x |-> x, y |-> y]

\* the closure state of lineBrush(): d is the "d" attribute of path.linebrush
\* as last rendered; dragHeadActive and dragTailActive belong to the
\* listeners the second click registers; called tells whether the listener
\* that ran last has invoked brushCallback
InitLineBrush ==
    [started |-> FALSE, ended |-> FALSE, visible |-> FALSE,
     start |-> Point(0, 0), end |-> Point(0, 0),
     d |-> <<Point(0, 0), Point(0, 0)>>,
     dragHeadActive |-> FALSE, dragTailActive |-> FALSE, called |-> FALSE]

Sgn(x) == IF x > 0 THEN 1 ELSE IF x < 0 THEN 0 - 1 ELSE 0
Cross(o, a, b) == (a.x - o.x) * (b.y - o.y) - (a.y - o.y) * (b.x - o.x)

\* two straight segments meet in one point (the library's pathIntersection
\* finds no point for parallel or zero-length segments)
SegIntersect(p1, p2, p3, p4) ==
    LET den == (p1.x - p2.x) * (p3.y - p4.y) - (p1.y - p2.y) * (p3.x - p4.x)
    IN /\ den # 0
       /\ Sgn(Cross(p1, p2, p3)) * Sgn(Cross(p1, p2, p4)) <= 0
       /\ Sgn(Cross(p3, p4, p1)) * Sgn(Cross(p3, p4, p2)) <= 0

pathIntersection(path, line) ==
    \E i \in 1..(Len(path) - 1) : \E j \in 1..(Len(line) - 1) :
        SegIntersect(path[i], path[i + 1], line[j], line[j + 1])

\* a brushed that never looks at the line
brushedAlways(lb, path) == TRUE

\* lineBrush.brushed, on the "d" attributes as last rendered
brushed(lb, path) ==
    IF lb.visible
    THEN IF path # <<>> THEN pathIntersection(path, lb.d) ELSE TRUE
    ELSE TRUE

\* lineBrush.render
renderLine(lb) == [lb EXCEPT !.d = <<lb.start, lb.end>>]

-----------------------------------------------------------------------------
(* ParallelCoordinates, MultiCriteriaParallelCoordinates *)

\* the chart object: the fields the handlers read and write
Chart ==
    [chartClass |-> chartClass, data |-> data, dimensions |-> dimensions,
     axes |-> axes, polylines |-> polylines, lineBrush |-> lineBrush,
     xScale |-> xScale, dragging |-> dragging, groups |-> groups]

DimNames(dims) == [i \in 1..Len(dims) |-> dims[i].name]

\* xScale(name): d3 scalePoint over [0, canvasWidth]
xScalePosition(domain, name) ==
    LET n == Len(domain)
        i == IndexOf(domain, name)
    IN IF n = 1 THEN canvasWidth \div 2
       ELSE ((i - 1) * canvasWidth) \div (n - 1)

\* ParallelCoordinates.position: the drag position of an axis that is being
\* dragged, the position xScale gives it otherwise
position(c, name) ==
    IF name \in DOMAIN c.dragging THEN c.dragging[name]
    ELSE xScalePosition(c.xScale, name)

\* the y of a vertex whose pixel value is NaN: a mark off every canvas
NaNCoordinate == 0 - 1000000

\* ParallelCoordinates.path: the vertices of the item's polyline
path(c, item) ==
    [i \in 1..Len(c.dimensions) |->
        LET dim == c.dimensions[i]
            rangeVal == domainToRange(c.axes[dim.name].scale, valueAt(item, dim.name))
        IN Point(position(c, dim.name),
                 IF rangeVal.def THEN rangeVal.p \div TicksPerPx
                 ELSE IF rangeVal.nan THEN NaNCoordinate
                 ELSE canvasHeight + 15)]

\* a chart predicate that asks the axes only
chartIsBrushedAxesOnly(c, pl) ==
    \A k \in DOMAIN c.axes :
        isBrushed(c.axes[k], valueAt(pl.datum, c.axes[k].dimension.name))

\* ParallelCoordinates.isBrushed and its override in
\* MultiCriteriaParallelCoordinates, for one .polyline element
chartIsBrushed(c, pl) ==
    /\ \A k \in DOMAIN c.axes :
          isBrushed(c.axes[k], valueAt(pl.datum, c.axes[k].dimension.name))
    /\ (c.chartClass = "PAVED" => brushed(c.lineBrush, pl.d))

\* ParallelCoordinates.brush(dir), one polyline: isBrushed is what the
\* chart's predicate gives it now.  EXTEND looks at the polylines without
\* the class only, SHRINK at those with it, no direction at all of them.
classed(pl, dir, isBrushedNow) ==
    IF dir = "EXTEND"
    THEN IF ~pl.brushed /\ isBrushedNow THEN [pl EXCEPT !.brushed = TRUE] ELSE pl
    ELSE IF dir = "SHRINK"
    THEN IF pl.brushed /\ ~isBrushedNow THEN [pl EXCEPT !.brushed = FALSE] ELSE pl
    ELSE [pl EXCEPT !.brushed = isBrushedNow]

\* ParallelCoordinates.brush(dir)
brush(c, dir) ==
    [c EXCEPT !.polylines =
        [id \in DOMAIN c.polylines |->
            classed(c.polylines[id], dir, chartIsBrushed(c, c.polylines[id]))]]

\* d3 sets the selection of the axis's brush and emits "brush"
emitBrush(c, name, sel) ==
    [c EXCEPT !.axes[name] = onBrush([c.axes[name] EXCEPT !.selection = sel])]

\* d3 emits "end" on the axis's brush
emitEnd(c, name) ==
    IF endCallsHandler(c.axes[name]) THEN brush(c, "EXTEND") ELSE c

\* brush.move(brushGroup, sel)
brushMove(c, name, sel) == emitEnd(emitBrush(c, name, sel), name)

\* the selection clearBrush moves the brush to: null in DefaultAxis, the
\* full range [range[1], range[0]] in ObjectiveAxis's override
clearedSelection(axis) ==
    IF axis.cls = "ObjectiveAxis"
    THEN Selection(axis.scale.range[2], axis.scale.range[1])
    ELSE NoSelection

\* DefaultAxis.clearBrush and its override in ObjectiveAxis
clearBrush(c, name) ==
    IF ~c.axes[name].registered THEN c
    ELSE brushMove(c, name, clearedSelection(c.axes[name]))

\* ParallelCoordinates.clearBrushes
RECURSIVE clearBrushesFrom(_, _)
clearBrushesFrom(c, i) ==
    IF i > Len(c.dimensions) THEN c
    ELSE clearBrushesFrom(clearBrush(c, c.dimensions[i].name), i + 1)

clearBrushes(c) == clearBrushesFrom(c, 1)

\* ParallelCoordinates.updateAxis (MultiCriteria's override adds the
\* color): axis.setScale gives the range and the domain to the scale object
\* the axis was constructed with
updateAxis(axis) ==
    LET dim == axis.dimension
    IN IF dim.attr_type \in {"NUMERICAL", "NOMINAL"}
       THEN [axis EXCEPT !.scale = [setScale(dim, AxisRange) EXCEPT !.type = axis.scale.type]]
       ELSE axis

\* updateAxes, the steps on one axis of toBeModified
bindDimension(c, dim) == [c EXCEPT !.axes[dim.name].dimension = dim]
rescaleAxis(c, name) == [c EXCEPT !.axes[name] = updateAxis(@)]

\* updateAxes, the body of the loop over toBeModified: setDimension,
\* clearBrush, updateAxis
modifyAxis(c, dim) ==
    rescaleAxis(clearBrush(bindDimension(c, dim), dim.name), dim.name)

\* a faulty loop over toBeModified, which leaves the brushes alone
RECURSIVE modifyAxesKeepBrush(_, _)
modifyAxesKeepBrush(c, toBeModified) ==
    IF toBeModified = <<>> THEN c
    ELSE modifyAxesKeepBrush(
             rescaleAxis(bindDimension(c, toBeModified[1]), toBeModified[1].name),
             Tail(toBeModified))

\* updateAxes, the loop over toBeModified
RECURSIVE modifyAxes(_, _)
modifyAxes(c, toBeModified) ==
    IF toBeModified = <<>> THEN c
    ELSE modifyAxes(modifyAxis(c, toBeModified[1]), Tail(toBeModified))

\* updateAxes, the axes of toBeRemoved leave this.axes and xScale gets the
\* new domain
removeAxes(c, removed) ==
    [c EXCEPT !.xScale = DimNames(c.dimensions),
              !.axes = [k \in (DOMAIN c.axes) \ removed |-> c.axes[k]]]

\* updateAxes, the loop over toBeAdded: generateAxis and updateAxis
addAxes(c, toBeAdded) ==
    [c EXCEPT !.axes =
        [k \in (DOMAIN c.axes) \cup SeqToSet(DimNames(toBeAdded)) |->
            IF k \in SeqToSet(DimNames(toBeAdded))
            THEN updateAxis(generateAxis(c.chartClass,
                                         toBeAdded[IndexOf(DimNames(toBeAdded), k)]))
            ELSE c.axes[k]]]

\* updateAxes, the dimensions of toBeAdded the loop gets through: it ends
\* at the first one whose axis constructor throws
RECURSIVE constructible(_, _)
constructible(cls, toBeAdded) ==
    IF toBeAdded = <<>> THEN <<>>
    ELSE IF constructorThrows(cls, toBeAdded[1]) THEN <<>>
    ELSE <<toBeAdded[1]>> \o constructible(cls, Tail(toBeAdded))

\* whether updateAxes throws: a dimension of toBeAdded (a new one, or one
\* that became or ceased to be an objective) has a constructor that throws
updateAxesThrows(c, oldDimensions) ==
    \E i \in 1..Len(c.dimensions) :
        /\ constructorThrows(c.chartClass, c.dimensions[i])
        /\ \/ c.dimensions[i].name \notin SeqToSet(DimNames(oldDimensions))
           \/ \E j \in 1..Len(oldDimensions) :
                 /\ oldDimensions[j].name = c.dimensions[i].name
                 /\ hasTypeObjective(oldDimensions[j]) # hasTypeObjective(c.dimensions[i])

\* ParallelCoordinates.updateAxes; c.dimensions are the new dimensions.  A
\* dimension that became or ceased to be an objective has its axis removed
\* and generated again.  When a constructor throws, the chart is left as
\* the steps before it made it.
updateAxes(c, oldDimensions) ==
    LET new == c.dimensions
        oldNames == SeqToSet(DimNames(oldDimensions))
        newNames == SeqToSet(DimNames(new))
        oldDim(n) == oldDimensions[IndexOf(DimNames(oldDimensions), n)]
        regenerate(dim) ==
            /\ dim.name \in oldNames
            /\ hasTypeObjective(dim) # hasTypeObjective(oldDim(dim.name))
        isModified(dim) == dim.name \in oldNames /\ ~regenerate(dim)
        isAdded(dim) == dim.name \notin oldNames
        removed == (oldNames \ newNames) \cup
                   {new[i].name : i \in {j \in 1..Len(new) : regenerate(new[j])}}
    IN addAxes(modifyAxes(removeAxes(c, removed), SelectSeq(new, isModified)),
               constructible(c.chartClass,
                             SelectSeq(new, isAdded) \o SelectSeq(new, regenerate)))

\* a setDimensions that assigns the dimensions before it looks at the rows
setDimensionsUnchecked(c, dims) ==
    LET isSubset == \A i \in 1..Len(dims) : \A j \in 1..Len(c.data) :
                        dims[i].name \in DOMAIN c.data[j]
    IN IF isSubset
       THEN [ok |-> TRUE, c |-> updateAxes([c EXCEPT !.dimensions = dims], c.dimensions)]
       ELSE [ok |-> FALSE, c |-> [c EXCEPT !.dimensions = dims]]

\* ParallelCoordinates.setDimensions; ok is FALSE when it throws
setDimensions(c, dims) ==
    LET isSubset == \A i \in 1..Len(dims) : \A j \in 1..Len(c.data) :
                        dims[i].name \in DOMAIN c.data[j]
    IN IF isSubset
       THEN [ok |-> ~updateAxesThrows([c EXCEPT !.dimensions = dims], c.dimensions),
             c |-> updateAxes([c EXCEPT !.dimensions = dims], c.dimensions)]
       ELSE [ok |-> FALSE, c |-> c]

\* the dimensions named, in the order of the names
RECURSIVE dimensionsNamed(_, _)
dimensionsNamed(dims, names) ==
    IF names = <<>> THEN <<>>
    ELSE SelectSeq(dims, LAMBDA dim : dim.name = names[1])
             \o dimensionsNamed(dims, Tail(names))

\* a setDimensionSubset that takes the dimensions in the order of its argument
setDimensionSubsetAsNamed(c, names) ==
    setDimensions(c, dimensionsNamed(c.dimensions, names))

\* ParallelCoordinates.setDimensionSubset(names)
setDimensionSubset(c, names) ==
    setDimensions(c, SelectSeq(c.dimensions, LAMBDA dim : dim.name \in SeqToSet(names)))

\* Math.min(this.options.width, Math.max(0, event.x))
clampDrag(x) ==
    IF x < 0 THEN 0 ELSE IF x > options.width THEN options.width ELSE x

\* this.dragging[name] = v
setDragging(c, name, v) ==
    [c EXCEPT !.dragging =
        [k \in (DOMAIN c.dragging) \cup {name} |->
            IF k = name THEN v ELSE c.dragging[k]]]

\* delete this.dragging[name]
deleteDragging(c, name) ==
    [c EXCEPT !.dragging =
        IF (DOMAIN c.dragging) \ {name} = {} THEN <<>>
        ELSE [k \in (DOMAIN c.dragging) \ {name} |-> c.dragging[k]]]

\* dim goes into the sorted dimensions behind every one that is not to
\* its right
insertByPosition(c, sorted, dim) ==
    SubSeq(sorted, 1,
           Cardinality({i \in 1..Len(sorted) :
                          position(c, sorted[i].name) <= position(c, dim.name)}))
      \o <<dim>>
      \o SubSeq(sorted,
                Cardinality({i \in 1..Len(sorted) :
                               position(c, sorted[i].name) <= position(c, dim.name)}) + 1,
                Len(sorted))

\* a sort that puts a dimension in front of those at its own position
RECURSIVE sortTiesFirst(_, _)
sortTiesFirst(c, dims) ==
    IF dims = <<>> THEN <<>>
    ELSE LET sorted == sortTiesFirst(c, SubSeq(dims, 1, Len(dims) - 1))
             dim == dims[Len(dims)]
             n == Cardinality({i \in 1..Len(sorted) :
                                 position(c, sorted[i].name) < position(c, dim.name)})
         IN SubSeq(sorted, 1, n) \o <<dim>> \o SubSeq(sorted, n + 1, Len(sorted))

\* this.dimensions.sort by position: Array.prototype.sort is stable
RECURSIVE sortByPosition(_, _)
sortByPosition(c, dims) ==
    IF dims = <<>> THEN <<>>
    ELSE insertByPosition(c, sortByPosition(c, SubSeq(dims, 1, Len(dims) - 1)),
                          dims[Len(dims)])

sortDimensions(c) == [c EXCEPT !.dimensions = sortByPosition(c, c.dimensions)]

\* this.xScale.domain(this.dimensions.map((dim) => dim.name))
setDomain(c) == [c EXCEPT !.xScale = DimNames(c.dimensions)]

\* the "d" attribute of every foreground polyline is set to path(item)
redrawLines(c) ==
    [c EXCEPT !.polylines =
        [id \in DOMAIN c.polylines |->
            [c.polylines[id] EXCEPT !.d = path(c, c.polylines[id].datum)]]]

\* a "drag" listener that leaves the domain of xScale as it is
draggedOldDomain(c, name, x) ==
    redrawLines(sortDimensions(setDragging(c, name, clampDrag(x))))

\* the drag behaviour of a dimension group: "start", "drag" and "end"
dragStarted(c, name) == setDragging(c, name, xScalePosition(c.xScale, name))
dragged(c, name, x) ==
    redrawLines(setDomain(sortDimensions(setDragging(c, name, clampDrag(x)))))
dragEnded(c, name) == setDomain(redrawLines(deleteDragging(c, name)))

\* a setRows that carries only the optimization direction forward
setPreparedRowsDirectionOnly(c, prepared) ==
    LET columns == prepared.columns
        existing(col) == IndexOf(DimNames(c.dimensions), col.name)
        typeChanged(col) ==
            /\ existing(col) # 0
            /\ col.attr_type # c.dimensions[existing(col)].attr_type
        carried == [i \in 1..Len(columns) |->
                      IF existing(columns[i]) # 0
                      THEN [columns[i] EXCEPT !.obj = c.dimensions[existing(columns[i])].obj]
                      ELSE columns[i]]
    IN IF \E i \in 1..Len(columns) : columns[i].attr_type = "ERROR"
       THEN [ok |-> FALSE, c |-> c]
       ELSE IF \E i \in 1..Len(columns) : typeChanged(columns[i])
       THEN [ok |-> FALSE, c |-> [c EXCEPT !.data = prepared.rows]]
       ELSE setDimensions([c EXCEPT !.data = prepared.rows], carried)

\* ParallelCoordinates.setRows; ok is FALSE when it throws.  prepared is
\* what prepareData made of the rows: the columns and the rows with IDs.
setPreparedRows(c, prepared) ==
    LET columns == prepared.columns
        existing(col) == IndexOf(DimNames(c.dimensions), col.name)
        typeChanged(col) ==
            /\ existing(col) # 0
            /\ col.attr_type # c.dimensions[existing(col)].attr_type
        carried == [i \in 1..Len(columns) |->
                      IF existing(columns[i]) # 0
                      THEN [columns[i] EXCEPT !.obj = c.dimensions[existing(columns[i])].obj,
                                           !.unit = c.dimensions[existing(columns[i])].unit,
                                           !.color = c.dimensions[existing(columns[i])].color]
                      ELSE columns[i]]
    IN IF \E i \in 1..Len(columns) : columns[i].attr_type = "ERROR"
       THEN [ok |-> FALSE, c |-> c]
       ELSE IF \E i \in 1..Len(columns) : typeChanged(columns[i])
       THEN [ok |-> FALSE, c |-> [c EXCEPT !.data = prepared.rows]]
       ELSE setDimensions([c EXCEPT !.data = prepared.rows], carried)

setRows(c, rows) == setPreparedRows(c, prepareData(rows))

\* ParallelCoordinates.renderForegroundLines: the data join on ID
renderForegroundLines(c) ==
    [c EXCEPT !.polylines =
        [id \in {c.data[i]["ID"].n : i \in 1..Len(c.data)} |->
            LET item == c.data[CHOOSE i \in 1..Len(c.data) : c.data[i]["ID"].n = id]
            IN IF id \in DOMAIN c.polylines
               THEN [c.polylines[id] EXCEPT !.datum = item, !.d = path(c, item)]
               ELSE [datum |-> item, d |-> path(c, item), brushed |-> FALSE]]]

\* registerAxis: initCanvas and render; ObjectiveAxis.initCanvas positions
\* the brush on the full range with clearBrush
registerAxis(c, name) ==
    IF c.axes[name].cls = "ObjectiveAxis"
    THEN clearBrush([c EXCEPT !.axes[name].registered = TRUE], name)
    ELSE [c EXCEPT !.axes[name].registered = TRUE]

\* ParallelCoordinates.renderAxes throws: the data join finds the group of
\* a dimension whose axis was generated after the group was made, and
\* render() of an axis that was never registered reads its undefined
\* axisGroup
renderAxesThrows(c) ==
    \E i \in 1..Len(c.dimensions) :
        /\ c.dimensions[i].name \in c.groups
        /\ ~c.axes[c.dimensions[i].name].registered

\* ParallelCoordinates.renderAxes, the groups the data join enters: they
\* register the axis of their dimension
RECURSIVE renderAxesFrom(_, _)
renderAxesFrom(c, i) ==
    IF i > Len(c.dimensions) THEN c
    ELSE renderAxesFrom(IF c.dimensions[i].name \in c.groups THEN c
                        ELSE registerAxis(c, c.dimensions[i].name), i + 1)

\* ParallelCoordinates.renderAxes: the groups of the dimensions are kept or
\* entered, the others removed
renderAxes(c) ==
    [renderAxesFrom(c, 1) EXCEPT !.groups = SeqToSet(DimNames(c.dimensions))]

\* ParallelCoordinates.render; when renderAxes throws, the foreground
\* lines are rendered and the groups are as they were
render(c) ==
    IF renderAxesThrows(c) THEN renderForegroundLines(c)
    ELSE renderAxes(renderForegroundLines(c))

\* ParallelCoordinates.update(data, dimensions), its steps; r is the
\* outcome so far, and a step is skipped once one has thrown
updateRows(r, hasRows, rows) == IF r.ok /\ hasRows THEN setRows(r.c, rows) ELSE r
updateDimensions(r, hasDims, dims) ==
    IF r.ok /\ hasDims THEN setDimensions(r.c, dims) ELSE r
\* an update that renders and leaves the flags as they are
renderOnly(r) ==
    IF r.ok THEN [ok |-> ~renderAxesThrows(r.c), c |-> render(r.c)] ELSE r

\* ParallelCoordinates.update, its last steps: render() and, unless that
\* throws, brush()
renderAndBrush(r) ==
    IF r.ok
    THEN IF renderAxesThrows(r.c) THEN [ok |-> FALSE, c |-> render(r.c)]
         ELSE [ok |-> TRUE, c |-> brush(render(r.c), "none")]
    ELSE r

\* ParallelCoordinates.update(data, dimensions); hasRows / hasDims tell
\* which arguments are given
update(c, hasRows, rows, hasDims, dims) ==
    renderAndBrush(updateDimensions(updateRows([ok |-> TRUE, c |-> c], hasRows, rows),
                                    hasDims, dims))

-----------------------------------------------------------------------------
(* Inputs *)

\* pointer positions along an axis, in ticks: a grid of n equal steps
Grid(n) ==
    {IF k = n THEN Px(canvasHeight) ELSE (Px(canvasHeight) \div n) * k : k \in 0..n}

\* the grids of the specifications
CoarseSteps == 2
FineSteps == 4

\* raw rows as a user supplies them, without IDs
RawRows(vals) == [i \in 1..Len(vals) |-> [k \in {"A"} |-> vals[i]]]
NumericRows == RawRows(<<Num(0), Num(5), Num(10)>>)
InvalidRows == RawRows(<<Num(10), NaNValue, Num(0)>>)
NominalRows == RawRows(<<Str("x"), Str("y"), Str("x")>>)
RowsInputs == {NumericRows, InvalidRows, NominalRows}

\* rows with two attributes, which give a chart the axes ID, A and B
DragRows ==
    <<[k \in {"A", "B"} |-> IF k = "A" THEN Num(0) ELSE Num(10)],
      [k \in {"A", "B"} |-> IF k = "A" THEN Num(10) ELSE Num(0)]>>

\* the x coordinates a drag event reports: off the canvas to the left, on
\* the axes' positions and between them, between the canvas and the
\* chart's right edge, and beyond it
DragXs ==
    {0 - 100, 0, canvasWidth \div 4, canvasWidth \div 2, (3 * canvasWidth) \div 4,
     canvasWidth, canvasWidth + 60, options.width + 100}

\* arguments of setDimensionSubset; "Z" names no attribute
SubsetArgs ==
    {<<"ID", "A">>, <<"A", "ID">>, <<"B", "ID">>, <<"B", "A", "ID">>,
     <<"Z", "ID", "B">>}

\* a dimension no row has a value for
UnknownDimension ==
    [name |-> "Z", attr_type |-> "NUMERICAL", obj |-> "none", unit |-> "none", color |-> "none",
     statistics |-> NoStatistics]

Reverse(seq) == [i \in 1..Len(seq) |-> seq[Len(seq) + 1 - i]]

\* arguments of setDimensions on a chart with the dimensions dims
DimensionArgs(dims) ==
    {Reverse(dims), Append(dims, UnknownDimension), <<UnknownDimension>> \o dims}

\* what a chart is built from: the class, the rows and the optimization
\* direction registered for attribute A
Config(cls, rows, obj) ==
    [cls |-> cls, rows |-> rows, obj |-> obj, unit |-> "none", color |-> "none"]

\* the same with a unit and a HEX color registered for attribute A
ConfigWith(cls, rows, obj, unit, color) ==
    [cls |-> cls, rows |-> rows, obj |-> obj, unit |-> unit, color |-> color]
Configs ==
    {Config("PC", NumericRows, "none"),
     Config("PAVED", InvalidRows, "none"),
     Config("PAVED", InvalidRows, "MIN"),
     Config("PAVED", InvalidRows, "MAX"),
     Config("PAVED", NominalRows, "none")}

\* pointer positions on the canvas for the line brush, in pixels
LinePoints == {Point(canvasWidth \div 2, 0), Point(canvasWidth \div 2, 60),
               Point(canvasWidth \div 2, canvasHeight + 15)}

\* ChartBuilder: the prepared rows and the columns with the registered
\* optimization direction of attribute A
builderColumns(rows, obj) ==
    LET cols == prepareData(rows).columns
    IN [i \in 1..Len(cols) |->
          IF cols[i].name = "A" THEN [cols[i] EXCEPT !.obj = obj] ELSE cols[i]]

\* ChartBuilder.registerUnits for attribute A; "none" registers nothing
registerUnits(cols, unit) ==
    [i \in 1..Len(cols) |->
        IF cols[i].name = "A" /\ unit # "none"
        THEN [cols[i] EXCEPT !.unit = unit] ELSE cols[i]]

\* ChartBuilder.registerHEXColors for attribute A: only an objective takes
\* a color
registerHEXColors(cols, color) ==
    [i \in 1..Len(cols) |->
        IF cols[i].name = "A" /\ color # "none" /\ hasTypeObjective(cols[i])
        THEN [cols[i] EXCEPT !.color = color] ELSE cols[i]]

\* the columns of a ChartBuilder after the registrations of a Config
buildColumns(cfg) ==
    registerHEXColors(registerUnits(builderColumns(cfg.rows, cfg.obj), cfg.unit),
                      cfg.color)

-----------------------------------------------------------------------------
(* The state machine *)

NoProbe == [called |-> FALSE, result |-> FALSE]

\* lastOp.phase follows two scenarios: "fresh" (built, no brush, no timer),
\* "created" (one brush event since), "settled" (its timer has fired); and
\* "cleared" (clearBrushes, then only timers)
\* of a drag it keeps the pointer coordinate reported last (x), the order
\* of the axes when the drag started (order) and whether the dragged axis
\* has passed a neighbour (crossed); of a call with an argument, the
\* argument (arg)
NoOp == [op |-> "init", name |-> "", dir |-> "none", prev |-> NoSelection,
         phase |-> "none", x |-> 0, order |-> <<>>, crossed |-> FALSE,
         arg |-> <<>>]

Install(c) ==
    /\ data' = c.data
    /\ dimensions' = c.dimensions
    /\ axes' = c.axes
    /\ polylines' = c.polylines
    /\ lineBrush' = c.lineBrush
    /\ xScale' = c.xScale
    /\ dragging' = c.dragging
    /\ groups' = c.groups
    /\ UNCHANGED <<chartClass, probe>>

\* the state after the constructor
Init ==
    /\ chartClass \in {"PC", "PAVED"}
    /\ data = <<>>
    /\ dimensions = <<>>
    /\ axes = <<>>
    /\ polylines = <<>>
    /\ lineBrush = InitLineBrush
    /\ xScale = <<>>
    /\ dragging = <<>>
    /\ groups = {}
    /\ lastOp = NoOp
    /\ probe = NoProbe

Rendered == dimensions # <<>>

\* every dimension of the chart has its axis; a handler of a chart that
\* lost one ends in a TypeError at its first step
Sound == \A i \in 1..Len(dimensions) : dimensions[i].name \in DOMAIN axes

\* every axis of the chart is registered.  isBrushed of an axis that is not
\* reads its undefined brushGroup, so that a selection recomputation ends
\* in a TypeError part-way; the handlers of such a chart are not followed.
Registered == \A k \in DOMAIN axes : axes[k].registered

Operable == Rendered /\ Sound /\ Registered

\* ChartBuilder.buildPAVED / buildParallelCoordinates: update(rows, columns)
\* the chart is fresh: no axis has a brush or a pending timer
Fresh(c) ==
    \A k \in DOMAIN c.axes :
        ~c.axes[k].selection.on /\ ~c.axes[k].timerId.pending

Built(r) ==
    /\ r.ok
    /\ Install(r.c)
    /\ lastOp' = [NoOp EXCEPT !.op = "build",
                              !.phase = IF Fresh(r.c) THEN "fresh" ELSE "none"]

Build(configs) ==
    /\ ~Rendered
    /\ \E cfg \in configs :
          /\ cfg.cls = chartClass
          /\ Built(update(Chart, TRUE, prepareData(cfg.rows).rows,
                          TRUE, buildColumns(cfg)))

\* chart.update(rows), a data refresh.  The history watches one axis: its
\* name and the selection it had when the refresh began; phase tells
\* whether the update was given rows.
Updated(r, k, phase) ==
    /\ Install(r.c)
    /\ lastOp' = [NoOp EXCEPT !.op = IF r.ok THEN "update" ELSE "updateFailed",
                              !.name = k,
                              !.prev = axes[k].selection,
                              !.phase = phase]

UpdateRows(rowsInputs) ==
    /\ Operable
    /\ \E rows \in rowsInputs : \E k \in DOMAIN axes :
          Updated(update(Chart, TRUE, rows, FALSE, <<>>), k, "rows")

\* chart.update() without arguments
UpdateOnly ==
    /\ Rendered
    /\ Sound
    /\ \E k \in DOMAIN axes : Updated(update(Chart, FALSE, <<>>, FALSE, <<>>), k, "none")

\* the selections a pointer gesture can give the axis's brush: any interval
\* on a default or parameter axis; on an objective axis only the handle at
\* the undesired end moves
Gestures(axis, grid) ==
    IF axis.cls = "ObjectiveAxis"
    THEN IF axis.dimension.obj = "MIN"
         THEN {Selection(y, axis.scale.range[1]) : y \in grid \ {axis.scale.range[1]}}
         ELSE {Selection(axis.scale.range[2], y) : y \in grid \ {axis.scale.range[2]}}
    ELSE {Selection(yy[1], yy[2]) : yy \in {zz \in grid \X grid : zz[1] < zz[2]}}

\* a pointer gesture changes the selection of the brush of one of the axes
\* named: "brush"
BrushEvent(names, grid) ==
    /\ Operable
    /\ \E k \in names \cap DOMAIN axes : \E sel \in Gestures(axes[k], grid) :
          /\ sel # axes[k].selection
          /\ Install(emitBrush(Chart, k, sel))
          /\ lastOp' = [NoOp EXCEPT
                  !.op = "brush", !.name = k,
                  !.dir = Direction([axes[k] EXCEPT !.selection = sel]),
                  !.prev = axes[k].selection,
                  !.phase = IF lastOp.phase = "fresh" THEN "created" ELSE "none"]

\* a click beside the selection removes the brush of a default or parameter
\* axis: "end" with an empty selection, and no "brush"
BrushRemove ==
    /\ Operable
    /\ \E k \in DOMAIN axes :
          /\ axes[k].cls # "ObjectiveAxis"
          /\ axes[k].selection.on
          /\ Install(emitEnd([Chart EXCEPT !.axes[k].selection = NoSelection], k))
          /\ lastOp' = [NoOp EXCEPT !.op = "remove", !.name = k,
                                        !.prev = axes[k].selection]

\* axis.clearBrush()
ClearBrush ==
    /\ Operable
    /\ \E k \in DOMAIN axes :
          /\ Install(clearBrush(Chart, k))
          /\ lastOp' = [NoOp EXCEPT !.op = "clearBrush", !.name = k,
                                        !.prev = axes[k].selection]

\* chart.clearBrushes()
ClearBrushes ==
    /\ Operable
    /\ Install(clearBrushes(Chart))
    /\ lastOp' = [NoOp EXCEPT !.op = "clearBrushes",
                              !.phase = IF lineBrush.visible THEN "none"
                                        ELSE "cleared"]

\* the throttle timer of an axis fires: brushHandler(name, direction), then
\* the timer slot is freed
Fire(k) ==
    /\ Registered
    /\ axes[k].timerId.timeouts > 0
    /\ Install([brush(Chart, axes[k].timerId.dir) EXCEPT
                    !.axes[k].timerId = [pending |-> FALSE, dir |-> "none",
                                         timeouts |-> @.timeouts - 1]])
    /\ lastOp' = [NoOp EXCEPT
            !.op = "timer",
            !.name = IF lastOp.phase = "created" THEN k ELSE "",
            !.phase = IF lastOp.phase = "created" THEN "settled"
                      ELSE IF lastOp.phase = "cleared" THEN "cleared"
                      ELSE "none"]

\* the timer of one of the axes fires
Timer == \E k \in DOMAIN axes : Fire(k)

\* brushCallback, as MultiCriteriaParallelCoordinates hands it to lineBrush:
\* () => this.brush()
brushCallback(c) == [brush(c, "none") EXCEPT !.lineBrush.called = TRUE]

\* a process that also notifies the chart on the first click
processNotifyingStart(c, pos) ==
    LET lb == c.lineBrush
    IN IF ~lb.started
       THEN [brushCallback([c EXCEPT !.lineBrush =
                               [lb EXCEPT !.started = TRUE, !.ended = FALSE,
                                          !.visible = TRUE, !.start = pos, !.end = pos]])
               EXCEPT !.lineBrush = renderLine(@)]
       ELSE IF ~lb.ended
       THEN [brushCallback([c EXCEPT !.lineBrush =
                               [lb EXCEPT !.ended = TRUE, !.end = pos,
                                          !.dragHeadActive = FALSE,
                                          !.dragTailActive = FALSE]])
               EXCEPT !.lineBrush = renderLine(@)]
       ELSE [c EXCEPT !.lineBrush = renderLine(lb)]

\* a process that takes a click on a completed brush for a first click
processRestarting(c, pos) ==
    LET lb == c.lineBrush
    IN IF ~lb.started \/ lb.ended
       THEN [c EXCEPT !.lineBrush =
               renderLine([lb EXCEPT !.started = TRUE, !.ended = FALSE,
                                     !.visible = TRUE, !.start = pos, !.end = pos])]
       ELSE [brushCallback([c EXCEPT !.lineBrush =
                               [lb EXCEPT !.ended = TRUE, !.end = pos,
                                          !.dragHeadActive = FALSE,
                                          !.dragTailActive = FALSE]])
               EXCEPT !.lineBrush = renderLine(@)]

\* lineBrush.process(position).  The second click registers the listeners
\* of the head and tail circles and calls brushCallback before it renders.
process(c, pos) ==
    LET lb == c.lineBrush
    IN IF ~lb.started
       THEN [c EXCEPT !.lineBrush =
               renderLine([lb EXCEPT !.started = TRUE, !.ended = FALSE,
                                     !.visible = TRUE, !.start = pos, !.end = pos])]
       ELSE IF ~lb.ended
       THEN [brushCallback([c EXCEPT !.lineBrush =
                               [lb EXCEPT !.ended = TRUE, !.end = pos,
                                          !.dragHeadActive = FALSE,
                                          !.dragTailActive = FALSE]])
               EXCEPT !.lineBrush = renderLine(@)]
       ELSE [c EXCEPT !.lineBrush = renderLine(lb)]

\* lineBrush.evolve(position)
evolve(c, pos) ==
    LET lb == c.lineBrush
    IN [c EXCEPT !.lineBrush =
          renderLine(IF lb.started /\ ~lb.ended THEN [lb EXCEPT !.end = pos] ELSE lb)]

\* the listener "mousemove.dragHead" of the foreground's rect
dragHeadMove(c, pos) ==
    IF c.lineBrush.ended /\ c.lineBrush.dragHeadActive
    THEN [c EXCEPT !.lineBrush = renderLine([@ EXCEPT !.start = pos])]
    ELSE c

\* the listener "mousemove.dragTail" of the foreground's rect
dragTailMove(c, pos) ==
    IF c.lineBrush.ended /\ c.lineBrush.dragTailActive
    THEN [c EXCEPT !.lineBrush = renderLine([@ EXCEPT !.end = pos])]
    ELSE c

\* a mousemove on the foreground's rect: its listeners in the order they
\* were registered
mousemove(c, pos) == dragTailMove(dragHeadMove(evolve(c, pos), pos), pos)

\* the listeners "mouseup" of the head and of the tail circle
headMouseUp(c) == brushCallback([c EXCEPT !.lineBrush.dragHeadActive = FALSE])
tailMouseUp(c) == brushCallback([c EXCEPT !.lineBrush.dragTailActive = FALSE])

\* lineBrush.cancel(): started, ended and visible are reset, start and end
\* are not; the listeners of the circles go, and their flags with them
cancel(c) ==
    [brushCallback([c EXCEPT !.lineBrush.started = FALSE, !.lineBrush.ended = FALSE,
                             !.lineBrush.visible = FALSE,
                             !.lineBrush.dragHeadActive = FALSE,
                             !.lineBrush.dragTailActive = FALSE])
        EXCEPT !.lineBrush = renderLine(@)]

\* a listener of the line brush starts: it has not called brushCallback yet
Heard(c) == [c EXCEPT !.lineBrush.called = FALSE]

LineOp(op) == [NoOp EXCEPT !.op = op]

\* a click on the foreground's rect
LineProcess ==
    /\ chartClass = "PAVED"
    /\ Registered
    /\ \E pos \in LinePoints :
          /\ Install(process(Heard(Chart), pos))
          /\ lastOp' = LineOp("process")

\* a mousemove on the foreground's rect.  The history keeps whether the
\* flags were current when the pointer moved.
LineEvolve ==
    /\ chartClass = "PAVED"
    /\ Registered
    /\ \E pos \in LinePoints :
          /\ Install(mousemove(Heard(Chart), pos))
          /\ lastOp' = [NoOp EXCEPT
                  !.op = "mousemove",
                  !.phase = IF \A id \in DOMAIN polylines :
                                  polylines[id].brushed =
                                      chartIsBrushed(Chart, polylines[id])
                            THEN "current" ELSE "none"]

\* the escape key
LineCancel ==
    /\ chartClass = "PAVED"
    /\ Registered
    /\ Install(cancel(Heard(Chart)))
    /\ lastOp' = LineOp("cancel")

\* mousedown and mouseup on the head circle, once the second click has
\* registered the listeners
LineHeadDown ==
    /\ chartClass = "PAVED"
    /\ Registered
    /\ lineBrush.ended
    /\ Install([Heard(Chart) EXCEPT !.lineBrush.dragHeadActive = TRUE])
    /\ lastOp' = LineOp("headDown")

LineHeadUp ==
    /\ chartClass = "PAVED"
    /\ Registered
    /\ lineBrush.ended
    /\ Install(headMouseUp(Heard(Chart)))
    /\ lastOp' = LineOp("headUp")

\* mousedown and mouseup on the tail circle
LineTailDown ==
    /\ chartClass = "PAVED"
    /\ Registered
    /\ lineBrush.ended
    /\ Install([Heard(Chart) EXCEPT !.lineBrush.dragTailActive = TRUE])
    /\ lastOp' = LineOp("tailDown")

LineTailUp ==
    /\ chartClass = "PAVED"
    /\ Registered
    /\ lineBrush.ended
    /\ Install(tailMouseUp(Heard(Chart)))
    /\ lastOp' = LineOp("tailUp")

\* the axis is dragged past the axis to its left or to its right
Passes(c, name) ==
    LET names == DimNames(c.dimensions)
        i == IndexOf(names, name)
    IN \/ i > 1 /\ position(c, name) < position(c, names[i - 1])
       \/ i < Len(names) /\ position(c, name) > position(c, names[i + 1])

\* the user grabs the title of an axis: "start"
DragStart ==
    /\ Operable
    /\ DOMAIN dragging = {}
    /\ \E k \in SeqToSet(DimNames(dimensions)) :
          /\ Install(dragStarted(Chart, k))
          /\ lastOp' = [NoOp EXCEPT !.op = "dragStart", !.name = k,
                                    !.x = xScalePosition(xScale, k),
                                    !.order = DimNames(dimensions)]

\* the pointer moves while the axis is held: "drag" with event.x = x
Drag(xs) ==
    \E k \in DOMAIN dragging : \E x \in xs :
        /\ Install(dragged(Chart, k, x))
        /\ lastOp' = [lastOp EXCEPT
                !.op = "drag", !.x = x,
                !.crossed = @ \/ Passes(setDragging(Chart, k, clampDrag(x)), k)]

\* the user lets the axis go: "end"
DragEnd ==
    \E k \in DOMAIN dragging :
        /\ Install(dragEnded(Chart, k))
        /\ lastOp' = [lastOp EXCEPT !.op = "dragEnd"]

\* the history of setDimensionSubset and setDimensions watches the axis of
\* attribute A: the selection its brush has when the call begins
WatchedSelection ==
    IF "A" \in DOMAIN axes THEN axes["A"].selection ELSE NoSelection

\* chart.setDimensionSubset(names)
SetSubset(r, names) ==
    /\ Install(r.c)
    /\ lastOp' = [NoOp EXCEPT
            !.op = IF r.ok THEN "setDimensionSubset" ELSE "setDimensionSubsetFailed",
            !.prev = WatchedSelection,
            !.order = DimNames(dimensions), !.arg = names]

SetDimensionSubset ==
    /\ Operable
    /\ DOMAIN dragging = {}
    /\ \E names \in SubsetArgs : SetSubset(setDimensionSubset(Chart, names), names)

\* chart.setDimensions(dims)
SetDims(r, dims) ==
    /\ Install(r.c)
    /\ lastOp' = [NoOp EXCEPT
            !.op = IF r.ok THEN "setDimensions" ELSE "setDimensionsFailed",
            !.prev = WatchedSelection,
            !.order = DimNames(dimensions), !.arg = DimNames(dims)]

SetDimensions ==
    /\ Operable
    /\ DOMAIN dragging = {}
    /\ \E dims \in DimensionArgs(dimensions) : SetDims(setDimensions(Chart, dims), dims)

\* descriptors a caller supplies for attribute A: a numerical and a
\* nominal one, a criterion on a nominal attribute, and one of an
\* attribute type the library does not know
ADescriptors ==
    {[name |-> "A", attr_type |-> "NUMERICAL", obj |-> "none", unit |-> "none",
      color |-> "none", statistics |-> [min |-> 0, max |-> 10, cats |-> <<>>]],
     [name |-> "A", attr_type |-> "NOMINAL", obj |-> "none", unit |-> "none",
      color |-> "none", statistics |-> [min |-> 0, max |-> 0, cats |-> <<"x", "y">>]],
     [name |-> "A", attr_type |-> "NOMINAL", obj |-> "MIN", unit |-> "none",
      color |-> "none", statistics |-> [min |-> 0, max |-> 0, cats |-> <<"x", "y">>]],
     [name |-> "A", attr_type |-> "ORDINAL", obj |-> "none", unit |-> "none",
      color |-> "none", statistics |-> NoStatistics]}

\* the dimensions dims with the descriptor in the place of the one of its
\* name, or behind them if dims has none of that name
withDescriptor(dims, d) ==
    IF d.name \in SeqToSet(DimNames(dims))
    THEN [i \in 1..Len(dims) |-> IF dims[i].name = d.name THEN d ELSE dims[i]]
    ELSE Append(dims, d)

\* chart.setDimensions(dims), dims being the chart's dimensions with a
\* descriptor the caller wrote for attribute A
SetDescriptors ==
    /\ Operable
    /\ DOMAIN dragging = {}
    /\ \E d \in ADescriptors :
          SetDims(setDimensions(Chart, withDescriptor(dimensions, d)),
                  withDescriptor(dimensions, d))

AllAxes == SeqToSet(KeyOrder)

Next ==
    \/ Build(Configs)
    \/ UpdateRows(RowsInputs)
    \/ BrushEvent(AllAxes, Grid(FineSteps))
    \/ BrushRemove
    \/ ClearBrush
    \/ ClearBrushes
    \/ Timer
    \/ LineProcess
    \/ LineEvolve
    \/ LineCancel
    \/ LineHeadDown
    \/ LineHeadUp
    \/ LineTailDown
    \/ LineTailUp
    \/ DragStart
    \/ Drag(DragXs)
    \/ DragEnd
    \/ SetDimensionSubset
    \/ SetDimensions

Spec == Init /\ [][Next]_vars

\* range brushing on a built chart
NextBrush ==
    \/ Build(Configs)
    \/ BrushEvent(AllAxes, Grid(CoarseSteps))
    \/ BrushRemove
    \/ ClearBrush
    \/ ClearBrushes
    \/ Timer

SpecBrush == Init /\ [][NextBrush]_vars

\* range brushing on axis A of one plain chart, on the fine grid
AxisConfigs == {Config("PC", NumericRows, "none")}

NextAxis ==
    \/ Build(AxisConfigs)
    \/ BrushEvent({"A"}, Grid(FineSteps))
    \/ BrushRemove
    \/ ClearBrush
    \/ ClearBrushes
    \/ Timer

SpecAxis == Init /\ [][NextAxis]_vars

\* brush events on axis A of every chart and removals of its brush, with
\* every timer of setTimeout firing in the end
NextAxisLive ==
    \/ Build(Configs)
    \/ BrushEvent({"A"}, Grid(CoarseSteps))
    \/ BrushRemove
    \/ Timer

SpecAxisLive ==
    /\ Init /\ [][NextAxisLive]_vars
    /\ \A k \in AllAxes : WF_vars(k \in DOMAIN axes /\ Fire(k))

\* range brushing on axis A and data refreshes
UpdateConfigs == {Config("PC", NumericRows, "none"), Config("PAVED", InvalidRows, "MIN")}

NextUpdate ==
    \/ Build(UpdateConfigs)
    \/ BrushEvent({"A"}, Grid(CoarseSteps))
    \/ Timer
    \/ UpdateRows(RowsInputs)

SpecUpdate == Init /\ [][NextUpdate]_vars

\* data refreshes and axis subsets of charts with registered meta data
MetaConfigs ==
    {ConfigWith("PAVED", InvalidRows, "MIN", "kg", "#ff0000"),
     ConfigWith("PAVED", NumericRows, "MAX", "none", "#00ff00"),
     ConfigWith("PC", NumericRows, "none", "kg", "#ff0000")}

NextMeta ==
    \/ Build(MetaConfigs)
    \/ BrushEvent({"A"}, Grid(CoarseSteps))
    \/ Timer
    \/ UpdateRows(RowsInputs)
    \/ SetDimensionSubset

SpecMeta == Init /\ [][NextMeta]_vars

\* brushing axis A and clearing the brush of any axis, on every chart
NextClear ==
    \/ Build(Configs)
    \/ BrushEvent({"A"}, Grid(CoarseSteps))
    \/ ClearBrush
    \/ Timer

SpecClear == Init /\ [][NextClear]_vars

\* the line brush on a chart one of whose items holds the invalid marker
LineConfigs == {Config("PAVED", InvalidRows, "none")}

NextLine ==
    \/ Build(LineConfigs)
    \/ LineProcess
    \/ LineEvolve
    \/ LineCancel
    \/ LineHeadDown
    \/ LineHeadUp
    \/ LineTailDown
    \/ LineTailUp

SpecLine == Init /\ [][NextLine]_vars

\* dragging the axes of a chart with three axes, and setting its dimensions
DragConfigs == {Config("PC", DragRows, "none"), Config("PAVED", DragRows, "none")}

NextDrag ==
    \/ Build(DragConfigs)
    \/ DragStart
    \/ Drag(DragXs)
    \/ DragEnd
    \/ SetDimensionSubset
    \/ SetDimensions

SpecDrag == Init /\ [][NextDrag]_vars

-----------------------------------------------------------------------------------------------------------------------------------------------------
(* isBrushed as a function of the axis, its brush extent and the raw value *)

\* how far, in ticks, a brush bound may lie off a position
ProbeJitter == 6

ProbeRows == {NumericRows, RawRows(<<Num(0), Num(1), Num(3)>>), NominalRows}

\* the raw values isBrushed is asked about: those of the rows, the invalid
\* marker and a category no row contains
ProbeValues(rows) == {rows[i]["A"] : i \in 1..Len(rows)} \cup {NaNValue, Str("zz")}

\* a rendered axis of attribute A over the rows
ProbeAxis(rows) ==
    [updateAxis(generateAxis("PC", deriveColumn("A", rows))) EXCEPT !.registered = TRUE]

\* the brush bounds: around the grid and around the values' positions
ProbeBounds(rows) ==
    LET positions ==
            {domainToRange(ProbeAxis(rows).scale, rows[i]["A"]).p : i \in 1..Len(rows)}
    IN {y + j : y \in Grid(CoarseSteps) \cup positions,
                j \in (0 - ProbeJitter)..ProbeJitter} \cap (0..Px(canvasHeight))

Probe(axis, lo, hi, value) ==
    [called |-> FALSE, axis |-> [axis EXCEPT !.selection = Selection(lo, hi)],
     value |-> value, result |-> FALSE]

InitIsBrushed ==
    /\ chartClass = "PC"
    /\ data = <<>>
    /\ dimensions = <<>>
    /\ axes = <<>>
    /\ polylines = <<>>
    /\ lineBrush = InitLineBrush
    /\ xScale = <<>>
    /\ dragging = <<>>
    /\ groups = {}
    /\ lastOp = NoOp
    /\ \E rows \in ProbeRows :
         \E lo \in ProbeBounds(rows) : \E hi \in ProbeBounds(rows) :
           \E value \in ProbeValues(rows) :
             /\ lo <= hi
             /\ probe = Probe(ProbeAxis(rows), lo, hi, value)

\* axis.isBrushed(value)
CallIsBrushed ==
    /\ ~probe.called
    /\ probe' = [probe EXCEPT !.called = TRUE,
                              !.result = isBrushed(probe.axis, probe.value)]
    /\ UNCHANGED <<chartClass, data, dimensions, axes, polylines, lineBrush, xScale,
                   dragging, groups, lastOp>>

SpecIsBrushed == InitIsBrushed /\ [][CallIsBrushed]_vars

\* dragging the axes of a chart with three axes, and refreshing its data
\* with rows of the same attributes
RefreshRows ==
    {DragRows,
     <<[k \in {"A", "B"} |-> IF k = "A" THEN Num(5) ELSE Num(0)],
       [k \in {"A", "B"} |-> IF k = "A" THEN Num(0) ELSE Num(5)]>>}

NextRefresh ==
    \/ Build(DragConfigs)
    \/ DragStart
    \/ Drag(DragXs)
    \/ DragEnd
    \/ UpdateRows(RefreshRows)

SpecRefresh == Init /\ [][NextRefresh]_vars

\* range brushing on axis A, a range brush on the ID axis and the line brush
SelectConfigs == {Config("PAVED", InvalidRows, "none")}

\* the one gesture on the ID axis: a brush over the upper half of the axis
UpperHalf == {0, Px(canvasHeight) \div 2}

NextSelect ==
    \/ Build(SelectConfigs)
    \/ BrushEvent({"A"}, Grid(CoarseSteps))
    \/ BrushEvent({"ID"}, UpperHalf)
    \/ Timer
    \/ LineProcess
    \/ LineEvolve

SpecSelect == Init /\ [][NextSelect]_vars

\* every handler that changes the axis order or the dimensions: the drag
\* of an axis, setDimensionSubset, setDimensions and update(rows)
NextOrder ==
    \/ Build(DragConfigs)
    \/ DragStart
    \/ Drag(DragXs)
    \/ DragEnd
    \/ SetDimensionSubset
    \/ SetDimensions
    \/ UpdateRows(RefreshRows)

SpecOrder == Init /\ [][NextOrder]_vars

\* the line brush on a chart with three axes, and the drag of its axes
LineDragConfigs == {Config("PAVED", DragRows, "none")}

NextLineDrag ==
    \/ Build(LineDragConfigs)
    \/ LineProcess
    \/ LineEvolve
    \/ DragStart
    \/ Drag(DragXs)
    \/ DragEnd

SpecLineDrag == Init /\ [][NextLineDrag]_vars

\* updates of a chart with an objective axis, a range brush and the line
\* brush; the new rows number as many as before, more, or fewer
ReloadConfigs == {Config("PC", NumericRows, "none"), Config("PAVED", InvalidRows, "MIN")}
ReloadRows ==
    {InvalidRows, RawRows(<<Num(5), NaNValue, Num(0), Num(10)>>),
     RawRows(<<Num(5), Num(10)>>)}

NextReload ==
    \/ Build(ReloadConfigs)
    \/ BrushEvent({"A"}, Grid(CoarseSteps))
    \/ Timer
    \/ LineProcess
    \/ LineEvolve
    \/ UpdateRows(ReloadRows)
    \/ UpdateOnly

SpecReload == Init /\ [][NextReload]_vars

\* charts whose caller writes descriptors of attribute A: a numerical and
\* a nominal attribute, shown, hidden by setDimensionSubset and shown again
KindConfigs ==
    {Config("PC", NumericRows, "none"), Config("PC", NominalRows, "none"),
     Config("PAVED", InvalidRows, "none"), Config("PAVED", NominalRows, "none")}

NextKind ==
    \/ Build(KindConfigs)
    \/ BrushEvent({"A"}, UpperHalf)
    \/ Timer
    \/ SetDimensionSubset
    \/ SetDescriptors
    \/ UpdateOnly

SpecKind == Init /\ [][NextKind]_vars

\* the calls that hide and show attributes: setDimensionSubset,
\* setDimensions with a descriptor of attribute A, and update with rows
VisibleConfigs == {Config("PC", NumericRows, "none"), Config("PAVED", DragRows, "none")}
VisibleRows == {NumericRows, DragRows}

NextVisible ==
    \/ Build(VisibleConfigs)
    \/ SetDimensionSubset
    \/ SetDescriptors
    \/ UpdateRows(VisibleRows)
    \/ UpdateOnly

SpecVisible == Init /\ [][NextVisible]_vars

-----------------------------------------------------------------------------
(* prepareData as a function of the rows *)

\* the longest column of raw values
MaxRows == 3

\* the raw values of a column: numbers, the invalid marker and categories
ColumnValues == {Num(0), Num(5), Num(10), NaNValue, Str("x"), Str("y")}

\* the columns of one to MaxRows raw values
ColumnInputs ==
    UNION {[1..n -> ColumnValues] : n \in 1..MaxRows}

InitPrepareData ==
    /\ chartClass = "PC"
    /\ data = <<>>
    /\ dimensions = <<>>
    /\ axes = <<>>
    /\ polylines = <<>>
    /\ lineBrush = InitLineBrush
    /\ xScale = <<>>
    /\ dragging = <<>>
    /\ groups = {}
    /\ lastOp = NoOp
    /\ \E vals \in ColumnInputs :
         probe = [called |-> FALSE, rows |-> RawRows(vals), threw |-> FALSE,
                  columns |-> <<>>]

\* the outcome of prepareData: it throws when deriveColumnMetaData does
Prepared(p, r) ==
    IF \E i \in 1..Len(r.columns) : r.columns[i].attr_type = "ERROR"
    THEN [p EXCEPT !.called = TRUE, !.threw = TRUE]
    ELSE [p EXCEPT !.called = TRUE, !.columns = r.columns]

\* prepareData(rows)
CallPrepareData ==
    /\ ~probe.called
    /\ probe' = Prepared(probe, prepareData(probe.rows))
    /\ UNCHANGED <<chartClass, data, dimensions, axes, polylines, lineBrush, xScale,
                   dragging, groups, lastOp>>

SpecPrepareData == InitPrepareData /\ [][CallPrepareData]_vars

-----------------------------------------------------------------------------
(* Properties *)

TimersIdle == \A k \in DOMAIN axes : ~axes[k].timerId.pending

\* the flag the chart's own predicate gives the polyline now
FlagsCurrent ==
    \A id \in DOMAIN polylines :
        polylines[id].brushed = chartIsBrushed(Chart, polylines[id])

\* C1: once no throttle timer is pending, every polyline carries the
\* brushed flag exactly when every axis's range brush and the line brush
\* select it.
C1_FlagsMatchBrushesWhenIdle == (Rendered /\ TimersIdle) => FlagsCurrent

\* the multiple of 10^-6 pixel nearest to a position t >= 0
Nearest6(t) == IF t % 10 < 5 THEN t - (t % 10) ELSE t - (t % 10) + 10

\* the value lies in the extent of the axis's brush, both rounded to 6
\* decimals, bounds included
WithinRounded(axis, value) ==
    /\ domainToRange(axis.scale, value).def
    /\ Nearest6(axis.selection.y0) <= Nearest6(domainToRange(axis.scale, value).p)
    /\ Nearest6(domainToRange(axis.scale, value).p) <= Nearest6(axis.selection.y1)

\* C2: on an axis with the brush extent [lo, hi], isBrushed(v) is true
\* exactly when v is not the invalid marker, has a pixel position p, and
\* lo <= p <= hi holds after rounding to 6 decimals.
C2_IsBrushedIffWithinRounded ==
    probe.called =>
        probe.result = (probe.value # NaNValue /\ WithinRounded(probe.axis, probe.value))

\* isBrushed answered true for a position just outside the extent as written
C2_Witness ==
    /\ probe.called
    /\ probe.result
    /\ probe.axis.selection.y0 > domainToRange(probe.axis.scale, probe.value).p

\* the raw values the items hold on the axis, and the invalid marker
RawValues(name) == {data[i][name] : i \in 1..Len(data)} \cup {NaNValue}

Unconstrained(name) == \A v \in RawValues(name) : isBrushed(axes[name], v)

\* C3: on an axis whose brush was never set (the chart has just been built)
\* or was cleared (clearBrush, clearBrushes), isBrushed is true for every
\* raw value, the invalid marker included.
C3_NoConstraintSelectsAll ==
    /\ lastOp.op \in {"build", "clearBrushes"} => \A k \in DOMAIN axes : Unconstrained(k)
    /\ lastOp.op = "clearBrush" => Unconstrained(lastOp.name)

\* the position of the value lies in the extent of the axis's brush
WithinExtent(axis, value) ==
    /\ domainToRange(axis.scale, value).def
    /\ axis.selection.y0 <= domainToRange(axis.scale, value).p
    /\ domainToRange(axis.scale, value).p <= axis.selection.y1

\* C4: a brush created on a numerical axis of a fresh chart leaves, once
\* its timer has fired, exactly the items selected whose position on the
\* axis lies in the extent.
C4_CreatedBrushSelectsExtent ==
    (lastOp.phase = "settled" /\ axes[lastOp.name].dimension.attr_type = "NUMERICAL") =>
        \A id \in DOMAIN polylines :
            polylines[id].brushed =
                WithinExtent(axes[lastOp.name], polylines[id].datum[lastOp.name])

\* the last step was a brush event on a default or parameter axis
Adjusted == lastOp.op = "brush" /\ axes[lastOp.name].cls # "ObjectiveAxis"

WidthChanged ==
    lastOp.prev.y1 - lastOp.prev.y0 #
        axes[lastOp.name].selection.y1 - axes[lastOp.name].selection.y0

\* a bound moved towards the inside, or the outside, of the previous extent
MovedInward ==
    \/ axes[lastOp.name].selection.y0 > lastOp.prev.y0
    \/ axes[lastOp.name].selection.y1 < lastOp.prev.y1

MovedOutward ==
    \/ axes[lastOp.name].selection.y0 < lastOp.prev.y0
    \/ axes[lastOp.name].selection.y1 > lastOp.prev.y1

\* C5: an adjustment of an existing extent is classified EXTEND when the
\* width changed and no bound moved inward, SHRINK when the width changed
\* and no bound moved outward, and gets no direction when the width is
\* unchanged.
C5_Classification ==
    (Adjusted /\ lastOp.prev.on) =>
        /\ (WidthChanged /\ ~MovedInward) => lastOp.dir = "EXTEND"
        /\ (WidthChanged /\ ~MovedOutward) => lastOp.dir = "SHRINK"
        /\ ~WidthChanged => lastOp.dir = "none"

\* the lower bound alone was moved inward, and the event was classified
C5_Witness ==
    /\ Adjusted
    /\ lastOp.prev.on
    /\ axes[lastOp.name].selection.y0 = lastOp.prev.y0
    /\ axes[lastOp.name].selection.y1 < lastOp.prev.y1
    /\ lastOp.dir = "SHRINK"

\* C6: an adjustment that changes the width and moves at least one bound
\* outward is classified EXTEND, also when the other bound moves inward.
C6_OutwardIsExtend ==
    (Adjusted /\ lastOp.prev.on /\ WidthChanged /\ MovedOutward) =>
        lastOp.dir = "EXTEND"

\* C7: a brush created on an axis without brush is classified SHRINK,
\* wherever it is created and whatever extent an earlier brush had.
C7_CreationIsShrink == (Adjusted /\ ~lastOp.prev.on) => lastOp.dir = "SHRINK"

\* C8, as the specification states it: a brush that is active on an axis
\* has the same extent after a data update that keeps the attribute.
C8_BrushSurvivesUpdate ==
    (lastOp.op = "update" /\ lastOp.prev.on) =>
        axes[lastOp.name].selection = lastOp.prev

\* C8, as the code has it: a data update that keeps the attribute clears
\* the brush that was active on its axis: a default or parameter axis has
\* no selection afterwards, an objective axis the full range.
C8_UpdateClearsBrush ==
    (lastOp.op = "update" /\ lastOp.prev.on) =>
        axes[lastOp.name].selection =
            IF axes[lastOp.name].cls = "ObjectiveAxis"
            THEN Selection(0, Px(canvasHeight))
            ELSE NoSelection

\* a data update went through while a default axis had a brush
C8_Witness ==
    /\ lastOp.op = "update"
    /\ lastOp.prev.on
    /\ axes[lastOp.name].cls = "DefaultAxis"
    /\ ~axes[lastOp.name].selection.on

\* C9: after clearBrushes() with an idle line brush, once the timers have
\* fired, every item is selected.
C9_AllSelectedAfterClearBrushes ==
    (lastOp.phase = "cleared" /\ TimersIdle /\ ~lineBrush.visible) =>
        \A id \in DOMAIN polylines : polylines[id].brushed

\* C10: clearBrush() on an axis right after clearBrush() on it changes
\* nothing: neither the brush state nor a polyline's flag.
C10_ClearBrushIdempotent ==
    lastOp.op = "clearBrush" => clearBrush(Chart, lastOp.name) = Chart

\* clearBrush() has removed an active brush and its recomputation is pending
C10_Witness ==
    /\ lastOp.op = "clearBrush"
    /\ lastOp.prev.on
    /\ ~axes[lastOp.name].selection.on
    /\ axes[lastOp.name].timerId.pending

\* the lifecycle state of the line brush
Life(lb) == IF ~lb.started THEN "idle" ELSE IF ~lb.ended THEN "started" ELSE "completed"

\* C11: the lifecycle of the line brush changes only from idle to started
\* on a first process, from started to completed on a second process and
\* to idle on cancel; a pointer movement never changes it; brushCallback is
\* invoked on the transition to completed and on cancel, and not on the
\* transition to started.
C11_Lifecycle ==
    [][/\ (Life(lineBrush') # Life(lineBrush)) => lastOp'.op \in {"process", "cancel"}
       /\ (lastOp'.op = "process" /\ Life(lineBrush) = "idle") =>
              (Life(lineBrush') = "started" /\ ~lineBrush'.called)
       /\ (lastOp'.op = "process" /\ Life(lineBrush) = "started") =>
              (Life(lineBrush') = "completed" /\ lineBrush'.called)
       /\ (lastOp'.op = "process" /\ Life(lineBrush) = "completed") =>
              Life(lineBrush') = "completed"
       /\ lastOp'.op = "cancel" => (Life(lineBrush') = "idle" /\ lineBrush'.called)
       /\ lastOp'.op = "mousemove" => Life(lineBrush') = Life(lineBrush)]_vars

\* the second click has completed the brush and called brushCallback
C11_Witness ==
    /\ lastOp.op = "process"
    /\ Life(lineBrush) = "completed"
    /\ lineBrush.called

\* C12: while the line brush is started, with one endpoint clicked and the
\* second not yet, brushed(path) is true for every polyline's path: the
\* provisional segment, here one that the pointer has drawn out, imposes no
\* constraint.
C12_StartedBrushSelectsAll ==
    (Rendered /\ Life(lineBrush) = "started" /\ lineBrush.start # lineBrush.end) =>
        \A id \in DOMAIN polylines : brushed(lineBrush, polylines[id].d)

\* the point r of the line through p and q lies between p and q
Between(p, q, r) ==
    /\ (IF p.x <= q.x THEN p.x <= r.x /\ r.x <= q.x ELSE q.x <= r.x /\ r.x <= p.x)
    /\ (IF p.y <= q.y THEN p.y <= r.y /\ r.y <= q.y ELSE q.y <= r.y /\ r.y <= p.y)

\* the segments from p1 to p2 and from p3 to p4 have a point in common
Meet(p1, p2, p3, p4) ==
    \/ /\ Sgn(Cross(p1, p2, p3)) # Sgn(Cross(p1, p2, p4))
       /\ Sgn(Cross(p3, p4, p1)) # Sgn(Cross(p3, p4, p2))
    \/ Cross(p1, p2, p3) = 0 /\ Between(p1, p2, p3)
    \/ Cross(p1, p2, p4) = 0 /\ Between(p1, p2, p4)
    \/ Cross(p3, p4, p1) = 0 /\ Between(p3, p4, p1)
    \/ Cross(p3, p4, p2) = 0 /\ Between(p3, p4, p2)

\* the polyline through the vertices has a point in common with the segment
Crosses(vertices, p, q) ==
    \E i \in 1..(Len(vertices) - 1) : Meet(vertices[i], vertices[i + 1], p, q)

C14_CancelRestoresInitialState ==
    lastOp.op = "cancel" =>
        /\ Life(lineBrush) = "idle"
        /\ lineBrush.start = InitLineBrush.start
        /\ lineBrush.end = InitLineBrush.end
        /\ lineBrush.called
        /\ \A id \in DOMAIN polylines : brushed(lineBrush, polylines[id].d)

\* C15: in the completed state, a move of the head or of the tail handle
\* recomputes the selection from the endpoint's new position: when the
\* flags were current before the pointer moved a handle, they are current
\* after it.
C15_HandleMoveRecomputes ==
    (/\ lastOp.op = "mousemove"
     /\ lastOp.phase = "current"
     /\ Life(lineBrush) = "completed"
     /\ (lineBrush.dragHeadActive \/ lineBrush.dragTailActive)) => FlagsCurrent

\* the last step belongs to the drag of an axis
Dragging == lastOp.op \in {"dragStart", "drag", "dragEnd"}

\* C16: an axis that is dragged to the left of the first axis and released
\* there is the first axis afterwards.
C16_DraggedLeftOfFirstIsFirst ==
    (lastOp.op = "dragEnd" /\ lastOp.x < xScalePosition(xScale, xScale[1])) =>
        DimNames(dimensions)[1] = lastOp.name

\* C17: during and after the drag of an axis the order of the axes is a
\* permutation of the order before the drag in which the other axes keep
\* their relative order, and it is that order when the dragged axis has
\* passed no neighbour.
C17_DragKeepsOtherAxesInOrder ==
    Dragging =>
        /\ Len(dimensions) = Len(lastOp.order)
        /\ SeqToSet(DimNames(dimensions)) = SeqToSet(lastOp.order)
        /\ InOrder(DimNames(dimensions), SeqToSet(lastOp.order) \ {lastOp.name}) =
               InOrder(lastOp.order, SeqToSet(lastOp.order) \ {lastOp.name})
        /\ xScale = DimNames(dimensions)
        /\ ~lastOp.crossed => DimNames(dimensions) = lastOp.order

\* a drag has moved an axis over two neighbours
C17_Witness ==
    /\ lastOp.op = "drag"
    /\ lastOp.crossed
    /\ Len(lastOp.order) = 3
    /\ lastOp.order[1] = lastOp.name
    /\ DimNames(dimensions)[3] = lastOp.name

\* C18: after every drag event the position of the dragged axis lies on
\* the canvas, within [0, canvasWidth].
C18_DragPositionOnCanvas ==
    lastOp.op = "drag" =>
        (0 <= dragging[lastOp.name] /\ dragging[lastOp.name] <= canvasWidth)

\* C19: setDimensionSubset(names) leaves the dimensions that are named, in
\* the relative order they had before the call.
C19_SubsetKeepsOrder ==
    lastOp.op = "setDimensionSubset" =>
        DimNames(dimensions) =
            InOrder(lastOp.order, SeqToSet(lastOp.order) \cap SeqToSet(lastOp.arg))

\* setDimensionSubset has kept two axes that a drag had reordered and that
\* its argument names in the opposite order
C19_Witness ==
    /\ lastOp.op = "setDimensionSubset"
    /\ lastOp.order = <<"B", "ID", "A">>
    /\ lastOp.arg = <<"ID", "A">>
    /\ DimNames(dimensions) = <<"ID", "A">>

\* C20: a setDimensions that throws, because a dimension is named that is
\* not a key of every row, changes nothing of the chart.
C20_FailedSetDimensionsChangesNothing ==
    [][lastOp'.op = "setDimensionsFailed" =>
          UNCHANGED <<chartClass, data, dimensions, axes, polylines, lineBrush,
                      xScale, dragging, groups>>]_vars

\* setDimensions has thrown on a chart whose axes a drag had reordered
C20_Witness ==
    /\ lastOp.op = "setDimensionsFailed"
    /\ "Z" \in SeqToSet(lastOp.arg)
    /\ lastOp.order # <<"ID", "A", "B">>
    /\ DimNames(dimensions) = lastOp.order

\* the attributes every row of the current data has a value for
DataKeys == {k \in SeqToSet(KeyOrder) \cup {"Z"} :
                \A i \in 1..Len(data) : k \in DOMAIN data[i]}

\* C21: a setDimensionSubset whose argument names an attribute that is not
\* in the current data fails: no such call returns normally.
C21_UnknownSubsetNameFails ==
    lastOp.op = "setDimensionSubset" => SeqToSet(lastOp.arg) \subseteq DataKeys

\* C22: a setRows that throws because an attribute changed its kind leaves
\* the chart as it was: the dimension descriptors, the axis order, the axes
\* and the data rows are those of before the call.
C22_FailedSetRowsChangesNothing ==
    [][lastOp'.op = "updateFailed" =>
          UNCHANGED <<data, dimensions, axes, xScale>>]_vars

\* the raw values of attribute A that prepareData was given
Given == {probe.rows[i]["A"] : i \in 1..Len(probe.rows)}

\* the descriptor prepareData has derived for attribute A
DerivedA == probe.columns[IndexOf(DimNames(probe.columns), "A")]

Derived == probe.called /\ ~probe.threw

AllNumbersOrMarker == \A v \in Given : v.t = "num" \/ v = NaNValue
AllStrings == \A v \in Given : v.t = "str"
AllMarker == \A v \in Given : v = NaNValue
ValidNumbers == {v.n : v \in {w \in Given : w.t = "num"}}

\* C23 as stated: a column is NOMINAL if and only if every value is a
\* string.
C23_NominalIffAllStrings ==
    Derived => (DerivedA.attr_type = "NOMINAL" <=> AllStrings)

\* C23: a column is NUMERICAL if and only if every value is a number or
\* the invalid marker, which includes a column of markers only; NOMINAL if
\* and only if every value is a string and not every value is the marker;
\* any other column throws.  A numerical column's min and max are those of
\* its numbers, and Infinity and -Infinity when it has none.
C23_Classification ==
    probe.called =>
        /\ probe.threw <=> ~AllNumbersOrMarker /\ ~AllStrings
        /\ Derived =>
              /\ DerivedA.attr_type = "NUMERICAL" <=> AllNumbersOrMarker
              /\ DerivedA.attr_type = "NOMINAL" <=> AllStrings /\ ~AllMarker
              /\ DerivedA.attr_type = "NUMERICAL" /\ ValidNumbers # {} =>
                    /\ DerivedA.statistics.min \in ValidNumbers
                    /\ DerivedA.statistics.max \in ValidNumbers
                    /\ \A n \in ValidNumbers :
                          DerivedA.statistics.min <= n /\ n <= DerivedA.statistics.max
              /\ DerivedA.attr_type = "NUMERICAL" /\ ValidNumbers = {} =>
                    /\ DerivedA.statistics.min = Infinity
                    /\ DerivedA.statistics.max = 0 - Infinity

\* prepareData has classified a column that holds nothing but the marker
C23_Witness ==
    /\ Derived
    /\ Len(probe.rows) > 1
    /\ AllMarker
    /\ DerivedA.attr_type = "NUMERICAL"

\* C24: after a successful setRows, a dimension of before the call that
\* the new data has with the same kind has the objective direction, the
\* unit and the color it had before.
C24_SetRowsKeepsMetaData ==
    [][lastOp'.op = "update" =>
          \A i \in 1..Len(dimensions) : \A j \in 1..Len(dimensions') :
              /\ dimensions[i].name = dimensions'[j].name
              /\ dimensions[i].attr_type = dimensions'[j].attr_type
              => /\ dimensions'[j].obj = dimensions[i].obj
                 /\ dimensions'[j].unit = dimensions[i].unit
                 /\ dimensions'[j].color = dimensions[i].color]_vars

\* a refresh has given a chart other rows than it was built from, and the
\* objective A has its direction, unit and color
C24_Witness ==
    /\ lastOp.op = "update"
    /\ data = prepareData(NumericRows).rows
    /\ \E i \in 1..Len(dimensions) :
          /\ dimensions[i].name = "A"
          /\ dimensions[i].obj = "MIN"
          /\ dimensions[i].unit = "kg"
          /\ dimensions[i].color = "#ff0000"
          /\ dimensions[i].statistics.min = 0
          /\ dimensions[i].statistics.max = 10

\* C25: an axis has at most one throttle timer pending.  A brush event on
\* an axis whose timer is pending schedules nothing, and when the timer's
\* callback has run the axis's timer slot is free.
C25_OneTimerPerAxis ==
    /\ [](\A k \in DOMAIN axes :
            /\ axes[k].timerId.timeouts <= 1
            /\ axes[k].timerId.pending <=> axes[k].timerId.timeouts = 1)
    /\ [][/\ lastOp'.op = "brush" /\ axes[lastOp'.name].timerId.pending
              => axes'[lastOp'.name].timerId = axes[lastOp'.name].timerId
          /\ lastOp'.op = "timer"
              => \E k \in DOMAIN axes :
                    /\ axes[k].timerId.pending
                    /\ axes'[k].timerId = NoTimer]_vars

\* a brush event has arrived on an axis whose timer was pending with
\* another direction than the event's, and that timer is still the one
C25_Witness ==
    /\ lastOp.op = "brush"
    /\ axes[lastOp.name].timerId.pending
    /\ axes[lastOp.name].timerId.timeouts = 1
    /\ axes[lastOp.name].timerId.dir # lastOp.dir

\* C26: the first brush event on an axis whose throttle timer is idle runs
\* the recomputation within the event: when the event is over, the flags
\* are what brush(direction) makes of them.
C26_FirstEventRecomputesNow ==
    lastOp.phase = "created" => brush(Chart, lastOp.dir).polylines = polylines

\* C27: the recomputation that the timer of a throttle window runs has the
\* direction classified for the most recent brush event of the axis: after
\* a brush event the pending timer holds the direction of that event.
C27_TimerHasLatestDirection ==
    lastOp.op = "brush" => axes[lastOp.name].timerId.dir = lastOp.dir

\* C28: after clearBrush() no callback that a brush event scheduled before
\* the clear is pending.  On a default or parameter axis the event of the
\* clear itself has no direction, so a timer pending after the clear would
\* have none.
C28_NoStaleTimerAfterClear ==
    /\ lastOp.op = "clearBrush"
    /\ axes[lastOp.name].cls # "ObjectiveAxis"
    /\ axes[lastOp.name].timerId.pending
    => axes[lastOp.name].timerId.dir = "none"

\* C29: a data update whose attributes are those of the current dimensions
\* leaves the axis order as it is, also when a drag has established it.
C29_RefreshKeepsOrder ==
    [][/\ lastOp'.op = "update"
       /\ DOMAIN dragging = {}
       /\ SeqToSet(DimNames(dimensions')) = SeqToSet(DimNames(dimensions))
       => DimNames(dimensions') = DimNames(dimensions)]_vars

\* the conjunction of the range brushes of all axes and the line brush,
\* for the item of a polyline
Tested(pl) ==
    /\ \A a \in DOMAIN axes : isBrushed(axes[a], valueAt(pl.datum, axes[a].dimension.name))
    /\ (chartClass = "PAVED" => brushed(lineBrush, pl.d))

\* C30: the recomputation a throttle timer runs with hint EXTEND flags the
\* unflagged items that pass the test and removes no flag; with hint SHRINK
\* it unflags the flagged items that fail the test and adds no flag;
\* without hint it gives every item the outcome of the test.  The test is
\* the conjunction over the brushes of all axes and the line brush.
C30_Recomputation ==
    [][lastOp'.op = "timer" =>
          \E k \in DOMAIN axes :
              /\ axes[k].timerId.pending
              /\ ~axes'[k].timerId.pending
              /\ \A id \in DOMAIN polylines :
                    /\ axes[k].timerId.dir = "EXTEND" =>
                          polylines'[id].brushed =
                              (polylines[id].brushed \/ Tested(polylines[id]))
                    /\ axes[k].timerId.dir = "SHRINK" =>
                          polylines'[id].brushed =
                              (polylines[id].brushed /\ Tested(polylines[id]))
                    /\ axes[k].timerId.dir = "none" =>
                          polylines'[id].brushed = Tested(polylines[id])]_vars

\* a timer has fired while two axes and the line brush constrain the
\* items: an item that only the line brush rejects is not flagged, and an
\* item that fails the test has kept its flag
C30_Witness ==
    /\ lastOp.op = "timer"
    /\ lineBrush.ended
    /\ \A a \in DOMAIN axes : axes[a].selection.on
    /\ \E id \in DOMAIN polylines :
          /\ ~polylines[id].brushed
          /\ \A a \in DOMAIN axes :
                isBrushed(axes[a], valueAt(polylines[id].datum, axes[a].dimension.name))
          /\ ~brushed(lineBrush, polylines[id].d)
    /\ \E id \in DOMAIN polylines : polylines[id].brushed /\ ~Tested(polylines[id])

\* C31: when update() has returned, the polylines are those of the data
\* rows and each carries the flag that the conjunction of the range
\* brushes of all axes and the line brush gives its item.
C31_UpdateMakesFlagsCurrent ==
    lastOp.op = "update" =>
        /\ DOMAIN polylines = {data[i]["ID"].n : i \in 1..Len(data)}
        /\ \A id \in DOMAIN polylines :
              polylines[id].brushed = Tested(polylines[id])

\* an update has added an item to a chart with a completed line brush,
\* and not every item is selected
C31_Witness ==
    /\ lastOp.op = "update"
    /\ lineBrush.ended
    /\ Len(data) = 4
    /\ \E id \in DOMAIN polylines : polylines[id].brushed
    /\ \E id \in DOMAIN polylines : ~polylines[id].brushed

\* C32: after a brush event on an axis a throttle timer of that axis is
\* pending, the event's own or the one that made the throttle drop it, and
\* a pending timer fires in the end: a recomputation runs after the event.
C32_EventIsFollowedByRecomputation ==
    /\ [](lastOp.op = "brush" => axes[lastOp.name].timerId.pending)
    /\ \A k \in AllAxes :
          (k \in DOMAIN axes /\ axes[k].timerId.pending)
              ~> (k \in DOMAIN axes /\ ~axes[k].timerId.pending)

\* the throttle has dropped a brush event that shrank the brush, and the
\* timer that is pending is one scheduled with EXTEND
C32_Witness ==
    /\ lastOp.op = "brush"
    /\ lastOp.prev.on
    /\ lastOp.dir = "SHRINK"
    /\ axes[lastOp.name].timerId.pending
    /\ axes[lastOp.name].timerId.dir = "EXTEND"

\* where a point scale over the canvas width puts the i-th of n names
PointOf(i, n) ==
    IF n = 1 THEN canvasWidth \div 2 ELSE ((i - 1) * canvasWidth) \div (n - 1)

\* C33: the domain of the positional scale is the list of the dimension
\* names in the current order, and the position of every axis that is not
\* being dragged is the scale's position of its index in that order.
C33_ScaleFollowsOrder ==
    /\ xScale = DimNames(dimensions)
    /\ \A i \in 1..Len(dimensions) :
          dimensions[i].name \notin DOMAIN dragging =>
              position(Chart, dimensions[i].name) = PointOf(i, Len(dimensions))

\* a drag event has changed the axis order, and another axis has taken
\* the place in the order that the dragged axis had
C33_Witness ==
    /\ lastOp.op = "drag"
    /\ Len(dimensions) = 3
    /\ DimNames(dimensions) # lastOp.order
    /\ xScale = DimNames(dimensions)
    /\ \E i \in 1..Len(dimensions) :
          /\ dimensions[i].name \notin DOMAIN dragging
          /\ lastOp.order[i] \in DOMAIN dragging
          /\ position(Chart, dimensions[i].name) = PointOf(i, Len(dimensions))

\* every polyline carries the flag that the range brushes and the line
\* brush give it on its path as it is
FlagsTested ==
    \A id \in DOMAIN polylines : polylines[id].brushed = Tested(polylines[id])

\* C34: a drag event that changes the axis order of a chart whose line
\* brush is completed leaves every item with the flag that the range
\* brushes and the line brush give on the new polylines.
C34_FlagsFollowReorder ==
    [][/\ lastOp'.op = "drag"
       /\ DimNames(dimensions') # DimNames(dimensions)
       /\ lineBrush.ended
       /\ FlagsTested
       => FlagsTested']_vars

\* C35: an attribute's kind is immutable: a setDimensions that gives an
\* existing attribute a descriptor of another kind is rejected, so the
\* scale variant of every axis is the one of the attribute type of the
\* dimension bound to it.
C35_ScaleVariantMatchesKind ==
    \A k \in DOMAIN axes : axes[k].scale.type = axes[k].dimension.attr_type

\* C36: a setDimensions that throws while an axis is being constructed
\* leaves the dimension list, the domain of the positional scale and the
\* set of axes as they were before the call.
C36_FailedConstructionChangesNothing ==
    [][lastOp'.op = "setDimensionsFailed"
         => /\ dimensions' = dimensions
            /\ xScale' = xScale
            /\ DOMAIN axes' = DOMAIN axes]_vars

\* C37: setDimensionSubset(T) leaves exactly the shown dimensions whose name
\* is in T, in their order, so that subsets one after the other only shrink
\* what is shown and a hidden dimension stays hidden when a later subset
\* names it; an update with rows shows every attribute of the data again.
C37_SubsetFiltersRowsRestore ==
    [][/\ lastOp'.op = "setDimensionSubset" =>
            DimNames(dimensions') =
               SelectSeq(DimNames(dimensions), LAMBDA n : n \in SeqToSet(lastOp'.arg))
       /\ (lastOp'.op = "update" /\ lastOp'.phase = "rows") =>
            SeqToSet(DimNames(dimensions')) = DataKeys']_vars

\* a setDimensionSubset has named attribute A of the data, which an earlier
\* subset had hidden, and A is still hidden
C37_Witness ==
    /\ lastOp.op = "setDimensionSubset"
    /\ "A" \in SeqToSet(lastOp.arg) \cap DataKeys
    /\ "A" \notin SeqToSet(lastOp.order)
    /\ "A" \notin SeqToSet(DimNames(dimensions))

\* C37 as stated: only a data update shows a hidden attribute again, that
\* is, a call that returns normally and shows an attribute that was not
\* shown before is a build or an update with rows.
C37_OnlyRowsRestore ==
    [][(/\ SeqToSet(DimNames(dimensions')) \ SeqToSet(DimNames(dimensions)) # {}
        /\ lastOp'.op \notin {"setDimensionsFailed", "setDimensionSubsetFailed",
                              "updateFailed"})
          => lastOp'.op \in {"build", "update"}]_vars

\* C38, as the code has it: setDimensionSubset and setDimensions clear the
\* range brush of every axis that stays: a default or parameter axis has no
\* selection afterwards, an objective axis the full range.
C38_KeptAxesLoseBrush ==
    lastOp.op \in {"setDimensionSubset", "setDimensions"} =>
        \A k \in DOMAIN axes :
            axes[k].registered => axes[k].selection = clearedSelection(axes[k])

\* setDimensionSubset has kept the axis of attribute A, which had a brush
C38_Witness ==
    /\ lastOp.op = "setDimensionSubset"
    /\ lastOp.prev.on
    /\ "A" \in DOMAIN axes
    /\ ~axes["A"].selection.on

\* C38, as stated: setDimensionSubset and setDimensions leave the range
\* brush of an axis that stays as it was.
C38_KeptAxesKeepBrush ==
    (lastOp.op \in {"setDimensionSubset", "setDimensions"} /\ "A" \in DOMAIN axes)
        => axes["A"].selection = lastOp.prev

\* C39: process(point) on a completed line brush changes neither endpoint
\* nor the lifecycle state and calls no brushCallback, so that no flag
\* changes; the line brush leaves the completed state only by cancel(),
\* which makes it idle.
C39_CompletedProcessIsNoOp ==
    [][/\ (lastOp'.op = "process" /\ Life(lineBrush) = "completed") =>
            /\ lineBrush'.start = lineBrush.start
            /\ lineBrush'.end = lineBrush.end
            /\ lineBrush'.d = lineBrush.d
            /\ Life(lineBrush') = "completed"
            /\ ~lineBrush'.called
            /\ polylines' = polylines
       /\ (Life(lineBrush) = "completed" /\ Life(lineBrush') # "completed") =>
            (lastOp'.op = "cancel" /\ Life(lineBrush') = "idle")]_vars

\* a click on the foreground of a rendered chart has reached the completed
\* line brush, which excludes a polyline
C39_Witness ==
    /\ Rendered
    /\ lastOp.op = "process"
    /\ Life(lineBrush) = "completed"
    /\ ~lineBrush.called
    /\ \E id \in DOMAIN polylines : ~brushed(lineBrush, polylines[id].d)

=============================================================================
